---- MODULE Spec2Model ----
(***************************************************************************)
(* A model of package logging of caring/go-packages: the Logger context    *)
(* (identity attributes, accumulated fields held in a Go slice), context   *)
(* derivation (With, NewChild), the leveled emission methods, and          *)
(* construction (NewLogger).                                               *)
(*                                                                         *)
(* Go slices are modelled as they are in memory: a slice header            *)
(* [arr, len] naming a backing array of the heap, whose length is the      *)
(* slice's capacity.  Copying a Logger struct copies the header, not the   *)
(* array.                                                                  *)
(***************************************************************************)
EXTENDS Integers, Sequences, FiniteSets, TLC

VARIABLES
    heap,        \* backing arrays of []Field slices: Seq(Seq(field))
    loggers,     \* the Logger values that exist; a *Logger is an index
    derivedFrom, \* history: derivedFrom[i] = the logger i was NewChild'ed from, 0 for the root
    accumulated, \* history: accumulated[i] = the fields given to logger i, and to the
                 \* loggers it descends from before it was derived, oldest first
    sampler,     \* the counters of the sampler around zapL's core, per level
    world,       \* the process environment: environment variables, AWS
    sinks,       \* the BufferedSinks started by writer.Buffer and their destinations
    threads,     \* the goroutines calling into the package and where each one is
    last         \* history: the operation performed by the last step and its outcome

vars == <<heap, loggers, derivedFrom, accumulated, sampler, world, sinks, threads, last>>

-----------------------------------------------------------------------------
(* Bounds of the model *)

MaxLoggers == 3
MaxLen == 4

-----------------------------------------------------------------------------
(* Values *)

\* A Field is an immutable key/value pair; Int64(k, v) makes one.
Int64(k, v) == <<k, v>>

\* The zero Field, the content of array slots that were allocated and never written.
ZeroField == <<"", 0>>

\* The field lists a call that configures or derives logger i passes in the
\* derivation specification: its field carries i as its value, so that a field
\* is traced to the call that supplied it.
ArgsOf(i) == {<<>>, <<Int64("f", i)>>}

\* Non-empty strings a caller may supply for an identity attribute.
Names == {"a", "b"}

Strings == Names \cup {""}

-----------------------------------------------------------------------------
(* Go slices *)

\* The nil / empty slice: no backing array.
NilSlice == [arr |-> 0, len |-> 0]

\* cap(s)
Cap(h, s) == IF s.arr = 0 THEN 0 ELSE Len(h[s.arr])

\* The elements s[0:len(s)], what a range over s reads.
Elems(h, s) == IF s.len = 0 THEN <<>> ELSE SubSeq(h[s.arr], 1, s.len)

\* The capacity append chooses when it must grow (runtime growslice, capacities
\* below 256 elements; 64-byte Fields fall on exact size classes up to 12).
growslice(oldCap, newLen) == IF newLen > 2 * oldCap THEN newLen ELSE 2 * oldCap

\* append(s, vals...): in place when capacity allows, else into a new array.
append(h, s, vals) ==
    LET n == s.len + Len(vals) IN
    IF Len(vals) = 0 THEN [heap |-> h, slice |-> s]
    ELSE IF n <= Cap(h, s)
    THEN [heap  |-> [h EXCEPT ![s.arr] =
                        [k \in 1..Len(@) |->
                            IF k > s.len /\ k <= n THEN vals[k - s.len] ELSE @[k]]],
          slice |-> [arr |-> s.arr, len |-> n]]
    ELSE LET c == growslice(Cap(h, s), n)
             a == [k \in 1..c |->
                      IF k <= s.len THEN h[s.arr][k]
                      ELSE IF k <= n THEN vals[k - s.len]
                      ELSE ZeroField]
         IN [heap |-> Append(h, a), slice |-> [arr |-> Len(h) + 1, len |-> n]]

\* The slice a variadic call f(a, b, ...) passes: nil for no arguments, else
\* a fresh array holding exactly the arguments.
variadic(h, vals) ==
    IF Len(vals) = 0 THEN [heap |-> h, slice |-> NilSlice]
    ELSE [heap |-> Append(h, vals), slice |-> [arr |-> Len(h) + 1, len |-> Len(vals)]]

\* Arrays no Logger refers to are unreachable and reclaimed; the remaining
\* ones are renumbered in order.
collect(h, ls) ==
    LET live == {ls[i].fields.arr : i \in 1..Len(ls)} \ {0}
        rank(a) == Cardinality({b \in live : b <= a})
    IN [heap    |-> [k \in 1..Cardinality(live) |->
                        h[CHOOSE a \in live : rank(a) = k]],
        loggers |-> [i \in 1..Len(ls) |->
                        [ls[i] EXCEPT !.fields.arr = IF @ = 0 THEN 0 ELSE rank(@)]]]

-----------------------------------------------------------------------------
(* FieldOpts *)

NilOpts ==
    [isNil |-> TRUE,
     Endpoint |-> "", CorrelationID |-> "", TraceabilityID |-> "",
     ClientID |-> "", UserID |-> "",
     OverwriteAccumulatedFields |-> FALSE,
     ResetEndpoint |-> FALSE, ResetCorrelationID |-> FALSE,
     ResetTraceabilityID |-> FALSE, ResetClientID |-> FALSE,
     ResetUserID |-> FALSE]

\* &FieldOpts{}: non-nil options with every member at its zero value.
ZeroOpts == [NilOpts EXCEPT !.isNil = FALSE]

-----------------------------------------------------------------------------
(* Logger.with and its helpers *)

\* One identity attribute as it would be if a supplied value were looked at
\* before the reset flag.
mergeAttrValueFirst(old, reset, val) ==
    IF val # "" THEN val ELSE IF reset THEN "" ELSE old

\* One identity attribute under the options: reset, else overwrite with a
\* non-empty value, else keep.
mergeAttr(old, reset, val) ==
    IF reset THEN "" ELSE IF val # "" THEN val ELSE old

\* accumulateFields: l.fields = append(l.fields, f...)
accumulateFields(h, l, f) ==
    LET r == append(h, l.fields, Elems(h, f))
    IN [heap |-> r.heap, logger |-> [l EXCEPT !.fields = r.slice]]

\* writeFields as it would be if a call without fields left the accumulated
\* fields as they were.
writeFieldsKeepOnNil(h, l, f) ==
    [heap |-> h, logger |-> IF f.len = 0 THEN l ELSE [l EXCEPT !.fields = f]]

\* writeFields: l.fields = f (the assignment of []Field{} for a nil f is
\* overwritten by the unconditional l.fields = f that follows it).
writeFields(h, l, f) ==
    [heap |-> h, logger |-> [l EXCEPT !.fields = f]]

\* Logger.with(opts, fields...) on the Logger value l; f is the slice passed.
with(h, l, opts, f) ==
    IF opts.isNil
    THEN LET r == append(h, l.fields, Elems(h, f))
         IN [heap |-> r.heap, logger |-> [l EXCEPT !.fields = r.slice]]
    ELSE LET l1 == [l EXCEPT
                      !.endpoint       = mergeAttr(@, opts.ResetEndpoint, opts.Endpoint),
                      !.correlationID  = mergeAttr(@, opts.ResetCorrelationID, opts.CorrelationID),
                      !.traceabilityID = mergeAttr(@, opts.ResetTraceabilityID, opts.TraceabilityID),
                      !.clientID       = mergeAttr(@, opts.ResetClientID, opts.ClientID),
                      !.userID         = mergeAttr(@, opts.ResetUserID, opts.UserID)]
         IN IF opts.OverwriteAccumulatedFields
            THEN writeFields(h, l1, f)
            ELSE accumulateFields(h, l1, f)

\* The six identity fields and the field values of a record, as getZapFields
\* lays them out: identity, accumulated (in slice order), call-site.
getZapFields(h, l, fields) ==
    LET total == 6 + Len(fields) + l.fields.len
        acc == Elems(h, l.fields)
    IN [k \in 1..total |->
          IF k = 1 THEN <<"service", l.serviceName>>
          ELSE IF k = 2 THEN <<"endpoint", l.endpoint>>
          ELSE IF k = 3 THEN <<"traceabilityID", l.traceabilityID>>
          ELSE IF k = 4 THEN <<"correlationID", l.correlationID>>
          ELSE IF k = 5 THEN <<"userID", l.userID>>
          ELSE IF k = 6 THEN <<"clientID", l.clientID>>
          ELSE IF k <= 6 + l.fields.len THEN <<"field", acc[k - 6]>>
          ELSE <<"field", fields[k - 6 - l.fields.len]>>]

\* The fields of the record logger i emits, in the state with heap h and
\* loggers ls, for a call without call-site fields.
RecordOf(h, ls, i) == getZapFields(h, ls[i], <<>>)

\* The fields of vals as getZapFields lays them out.
Supplied(vals) == [k \in 1..Len(vals) |-> <<"field", vals[k]>>]

-----------------------------------------------------------------------------
(* Levels *)

DebugLevel == -1
InfoLevel == 0
WarnLevel == 1
ErrorLevel == 2
DPanicLevel == 3
PanicLevel == 4
FatalLevel == 5

\* Level.Set / UnmarshalText: any casing of the seven names, "" is Info,
\* anything else is an error.  ToLower is given on the spellings the model uses.
ToLower(s) ==
    CASE s \in {"DEBUG", "DeBuG"} -> "debug"
      [] s \in {"WARN", "Warn"} -> "warn"
      [] s \in {"FATAL"} -> "fatal"
      [] OTHER -> s

LevelSet(s) ==
    LET t == ToLower(s)
    IN CASE t = "debug" -> [level |-> DebugLevel, err |-> ""]
         [] t \in {"info", ""} -> [level |-> InfoLevel, err |-> ""]
         [] t = "warn" -> [level |-> WarnLevel, err |-> ""]
         [] t = "error" -> [level |-> ErrorLevel, err |-> ""]
         [] t = "dpanic" -> [level |-> DPanicLevel, err |-> ""]
         [] t = "panic" -> [level |-> PanicLevel, err |-> ""]
         [] t = "fatal" -> [level |-> FatalLevel, err |-> ""]
         [] OTHER -> [level |-> InfoLevel, err |-> "unrecognized level"]

-----------------------------------------------------------------------------
(* Configuration: the Config a caller supplies, the process environment,   *)
(* and their merge.  A *bool is "nil", "true" or "false"; an error is a     *)
(* string, "" for nil.                                                     *)

ZeroConfig ==
    [LoggerName |-> "", ServiceName |-> "", LogLevel |-> 0,
     EnableDevLogging |-> "nil", KinesisStreamMonitoring |-> "",
     KinesisStreamReporting |-> "", DisableKinesis |-> "nil",
     FlushInterval |-> 0, BufferSize |-> 0, isNil |-> FALSE]

NilConfig == [ZeroConfig EXCEPT !.isNil = TRUE]

DefaultFlushInterval == 10
DefaultBufferSize == 262144

newDefaultConfig ==
    [ZeroConfig EXCEPT !.LogLevel = InfoLevel, !.EnableDevLogging = "false",
                       !.DisableKinesis = "true",
                       !.FlushInterval = DefaultFlushInterval,
                       !.BufferSize = DefaultBufferSize]

\* strconv.ParseBool, its result taken by address (&b).
ParseBool(s) ==
    IF s \in {"1", "t", "T", "TRUE", "true", "True"} THEN [v |-> "true", err |-> ""]
    ELSE IF s \in {"0", "f", "F", "FALSE", "false", "False"} THEN [v |-> "false", err |-> ""]
    ELSE [v |-> "false", err |-> "invalid syntax"]

\* *p of a *bool that is not nil.
Deref(p) == p = "true"

\* strconv.ParseInt, on the decimal texts the model uses.
ParseInt(s) ==
    CASE s = "7" -> [v |-> 7, err |-> ""]
      [] s = "1024" -> [v |-> 1024, err |-> ""]
      [] OTHER -> [v |-> 0, err |-> "invalid syntax"]

\* A string setting: the supplied value, else the environment's, else the default.
mergeString(supplied, fromEnv, default) ==
    IF supplied # "" THEN supplied ELSE IF fromEnv # "" THEN fromEnv ELSE default

\* A *bool setting: [v, err].
mergeBool(supplied, fromEnv, default) ==
    IF supplied # "nil" THEN [v |-> supplied, err |-> ""]
    ELSE IF fromEnv # "" THEN ParseBool(fromEnv)
    ELSE [v |-> default, err |-> ""]

\* LogLevel: a supplied level other than 0 wins, else LOG_LEVEL is parsed.
mergeLevel(supplied, fromEnv, default) ==
    IF supplied # 0 THEN [level |-> supplied, err |-> ""]
    ELSE IF fromEnv # "" THEN LevelSet(fromEnv)
    ELSE [level |-> default, err |-> ""]

\* FlushInterval and BufferSize: a supplied number other than 0 wins, else
\* the environment's text is parsed.
mergeNumber(supplied, fromEnv, default) ==
    IF supplied # 0 THEN [v |-> supplied, err |-> ""]
    ELSE IF fromEnv # "" THEN ParseInt(fromEnv)
    ELSE [v |-> default, err |-> ""]

NilValue == [isNil |-> TRUE]

\* mergeAndPopulateConfig(c): [config, err]; the first error met returns
\* (nil, err).
mergeAndPopulateConfig(config, env) ==
    LET c == IF config.isNil THEN ZeroConfig ELSE config
        d == newDefaultConfig
        lvl == mergeLevel(c.LogLevel, env.LOG_LEVEL, d.LogLevel)
        dev == mergeBool(c.EnableDevLogging, env.LOG_ENABLE_DEV, d.EnableDevLogging)
        kin == mergeBool(c.DisableKinesis, env.LOG_DISABLE_KINESIS, d.DisableKinesis)
        flush == mergeNumber(c.FlushInterval, env.LOG_FLUSH_INTERVAL, d.FlushInterval)
        buf == mergeNumber(c.BufferSize, env.LOG_BUFFER_SIZE, d.BufferSize)
        final ==
            [LoggerName |-> mergeString(c.LoggerName, env.LOG_NAME, d.LoggerName),
             ServiceName |-> mergeString(c.ServiceName, env.SERVICE_NAME, d.ServiceName),
             LogLevel |-> lvl.level,
             EnableDevLogging |-> dev.v,
             KinesisStreamMonitoring |->
                 mergeString(c.KinesisStreamMonitoring, env.LOG_STREAM_MONITORING,
                             d.KinesisStreamMonitoring),
             KinesisStreamReporting |->
                 mergeString(c.KinesisStreamReporting, env.LOG_STREAM_REPORTING,
                             d.KinesisStreamReporting),
             DisableKinesis |-> kin.v,
             FlushInterval |-> flush.v,
             BufferSize |-> buf.v,
             isNil |-> FALSE]
    IN IF lvl.err # "" THEN [config |-> NilValue, err |-> lvl.err]
       ELSE IF dev.err # "" THEN [config |-> NilValue, err |-> dev.err]
       ELSE IF kin.err # "" THEN [config |-> NilValue, err |-> kin.err]
       ELSE IF flush.err # "" THEN [config |-> NilValue, err |-> flush.err]
       ELSE IF buf.err # "" THEN [config |-> NilValue, err |-> buf.err]
       ELSE [config |-> final, err |-> ""]

-----------------------------------------------------------------------------
(* Construction: NewLogger *)

\* zap.NewProductionConfig() samples: per second, level and message, the
\* first SamplingInitial entries pass, then every SamplingThereafter-th.
SamplingInitial == 100
SamplingThereafter == 100

\* zapConfig.Build: a zap logger whose core writes to stdout at the
\* configured level.  The production configuration wraps the core in the
\* sampler; the development configuration does not and sets Development.
zapBuild(c) ==
    [core |-> [sink |-> "stdout", level |-> c.LogLevel,
               sampled |-> ~Deref(c.EnableDevLogging)],
     development |-> Deref(c.EnableDevLogging),
     name |-> c.LoggerName]

\* zapL.WithOptions(zap.WrapCore(func(zapcore.Core) zapcore.Core { return core }))
WrapCore(zapL, core) == [zapL EXCEPT !.core = core]

\* writer.NewKinesisWriter(streamName): the error, "" for nil.  It needs an
\* AWS session and a delivery stream of that name.
NewKinesisWriter(streamName, aws) ==
    IF ~aws.session THEN "NoCredentialProviders"
    ELSE IF streamName \notin aws.streams THEN "ResourceNotFoundException"
    ELSE ""

\* The BufferedSink writer.Buffer starts around a kinesis writer.
Buffer(streamName, size, interval) ==
    [stream |-> streamName, size |-> size, interval |-> interval]

buildMonitoringCore(streamName, size, interval, lvl, aws) ==
    LET err == NewKinesisWriter(streamName, aws)
    IN IF err # ""
       THEN [core |-> NilValue, closer |-> NilValue, err |-> err]
       ELSE [core |-> [sink |-> streamName, level |-> lvl, sampled |-> FALSE],
             closer |-> Buffer(streamName, size, interval), err |-> ""]

buildReportingCore(streamName, size, interval, aws) ==
    LET err == NewKinesisWriter(streamName, aws)
    IN IF err # ""
       THEN [core |-> NilValue, closer |-> NilValue, err |-> err]
       ELSE [core |-> [sink |-> streamName, level |-> InfoLevel, sampled |-> FALSE],
             closer |-> Buffer(streamName, size, interval), err |-> ""]

\* NewLogger as it would be if a failure to build the reporting core
\* returned the logger built so far along with the error.
NewLoggerKeepsMonitor(config, w) ==
    LET m == mergeAndPopulateConfig(config, w.env)
        c == m.config
        zapL == zapBuild(c)
        l == [serviceName |-> c.ServiceName, loggerName |-> c.LoggerName,
              endpoint |-> "", correlationID |-> "", traceabilityID |-> "",
              clientID |-> "", userID |-> "", fields |-> NilSlice,
              monitorLogger |-> zapL, reportingLogger |-> zapL,
              closers |-> <<>>]
        mon == buildMonitoringCore(c.KinesisStreamMonitoring, c.BufferSize,
                                   c.FlushInterval, c.LogLevel, w.aws)
        l1 == [l EXCEPT !.monitorLogger = WrapCore(zapL, mon.core),
                        !.closers = Append(l.closers, mon.closer)]
        rep == buildReportingCore(c.KinesisStreamReporting, c.BufferSize,
                                  c.FlushInterval, w.aws)
        l2 == [l1 EXCEPT !.reportingLogger = WrapCore(zapL, rep.core),
                         !.closers = Append(l1.closers, rep.closer)]
    IN IF m.err # "" THEN [logger |-> NilValue, err |-> m.err, started |-> <<>>]
       ELSE IF Deref(c.DisableKinesis) THEN [logger |-> l, err |-> "", started |-> <<>>]
       ELSE IF mon.err # "" THEN [logger |-> NilValue, err |-> mon.err, started |-> <<>>]
       ELSE IF c.KinesisStreamReporting = ""
            THEN [logger |-> l1, err |-> "", started |-> <<mon.closer>>]
       ELSE IF rep.err # ""
            THEN [logger |-> l1, err |-> rep.err, started |-> <<mon.closer>>]
       ELSE [logger |-> l2, err |-> "", started |-> <<mon.closer, rep.closer>>]

\* NewLogger(config) in the world w (environment variables, AWS):
\* [logger, err, started], started being the BufferedSinks it started.
NewLogger(config, w) ==
    LET m == mergeAndPopulateConfig(config, w.env)
        c == m.config
        zapL == zapBuild(c)
        l == [serviceName |-> c.ServiceName, loggerName |-> c.LoggerName,
              endpoint |-> "", correlationID |-> "", traceabilityID |-> "",
              clientID |-> "", userID |-> "", fields |-> NilSlice,
              monitorLogger |-> zapL, reportingLogger |-> zapL,
              closers |-> <<>>]
        mon == buildMonitoringCore(c.KinesisStreamMonitoring, c.BufferSize,
                                   c.FlushInterval, c.LogLevel, w.aws)
        l1 == [l EXCEPT !.monitorLogger = WrapCore(zapL, mon.core),
                        !.closers = Append(l.closers, mon.closer)]
        rep == buildReportingCore(c.KinesisStreamReporting, c.BufferSize,
                                  c.FlushInterval, w.aws)
        l2 == [l1 EXCEPT !.reportingLogger = WrapCore(zapL, rep.core),
                         !.closers = Append(l1.closers, rep.closer)]
    IN IF m.err # "" THEN [logger |-> NilValue, err |-> m.err, started |-> <<>>]
       ELSE IF Deref(c.DisableKinesis) THEN [logger |-> l, err |-> "", started |-> <<>>]
       ELSE IF mon.err # "" THEN [logger |-> NilValue, err |-> mon.err, started |-> <<>>]
       ELSE IF c.KinesisStreamReporting = ""
            THEN [logger |-> l1, err |-> "", started |-> <<mon.closer>>]
       ELSE IF rep.err # ""
            THEN [logger |-> NilValue, err |-> rep.err, started |-> <<mon.closer>>]
       ELSE [logger |-> l2, err |-> "", started |-> <<mon.closer, rep.closer>>]

\* A process environment with nothing set and no AWS access.
NoEnv ==
    [LOG_NAME |-> "", SERVICE_NAME |-> "", LOG_LEVEL |-> "", LOG_ENABLE_DEV |-> "",
     LOG_STREAM_MONITORING |-> "", LOG_STREAM_REPORTING |-> "",
     LOG_DISABLE_KINESIS |-> "", LOG_FLUSH_INTERVAL |-> "", LOG_BUFFER_SIZE |-> ""]

\* The sampler's counters at the start of a tick.
NoCounts == [lvl \in DebugLevel..FatalLevel |-> 0]

NoWorld == [env |-> NoEnv, aws |-> [session |-> FALSE, streams |-> {}]]

NoOp == [op |-> "none", l |-> 0, child |-> 0, opts |-> NilOpts, vals |-> <<>>]

-----------------------------------------------------------------------------
(* Context derivation: With and NewChild *)

\* The options the derivation specification lets a caller pass.
DeriveOpts ==
    {NilOpts, ZeroOpts,
     [ZeroOpts EXCEPT !.OverwriteAccumulatedFields = TRUE]}

\* The length of the accumulated fields after with(opts, vals...).
LenAfter(l, opts, vals) ==
    IF ~opts.isNil /\ opts.OverwriteAccumulatedFields
    THEN Len(vals) ELSE l.fields.len + Len(vals)

\* The fields a logger has been given once with(opts, vals...) is applied to
\* one that had been given acc: vals after acc, or vals alone when the
\* options ask to overwrite.
Given(acc, opts, vals) ==
    IF ~opts.isNil /\ opts.OverwriteAccumulatedFields THEN vals ELSE acc \o vals

\* l.With(opts, vals...): with on the Logger itself.
With(i, opts, vals) ==
    /\ i \in 1..Len(loggers)
    /\ LenAfter(loggers[i], opts, vals) <= MaxLen
    /\ LET a == variadic(heap, vals)
           r == with(a.heap, loggers[i], opts, a.slice)
           g == collect(r.heap, [loggers EXCEPT ![i] = r.logger])
       IN /\ heap' = g.heap
          /\ loggers' = g.loggers
    /\ accumulated' = [accumulated EXCEPT ![i] = Given(accumulated[i], opts, vals)]
    /\ last' = [op |-> "With", l |-> i, child |-> 0, opts |-> opts, vals |-> vals]
    /\ UNCHANGED <<derivedFrom, sampler, world, sinks, threads>>

\* l.NewChild(opts, vals...): new := *l; new.with(opts, vals...); return &new
NewChild(i, opts, vals) ==
    /\ i \in 1..Len(loggers)
    /\ Len(loggers) < MaxLoggers
    /\ LenAfter(loggers[i], opts, vals) <= MaxLen
    /\ LET a == variadic(heap, vals)
           new == loggers[i]
           r == with(a.heap, new, opts, a.slice)
           g == collect(r.heap, Append(loggers, r.logger))
       IN /\ heap' = g.heap
          /\ loggers' = g.loggers
    /\ derivedFrom' = Append(derivedFrom, i)
    /\ accumulated' = Append(accumulated, Given(accumulated[i], opts, vals))
    /\ UNCHANGED <<sampler, world, sinks, threads>>
    /\ last' = [op |-> "NewChild", l |-> i, child |-> Len(loggers) + 1,
                opts |-> opts, vals |-> vals]

Init ==
    /\ heap = <<>>
    /\ loggers = <<NewLogger([ZeroConfig EXCEPT !.ServiceName = "svc"], NoWorld).logger>>
    /\ derivedFrom = <<0>>
    /\ accumulated = <<(<<>>)>>
    /\ sampler = NoCounts
    /\ world = NoWorld
    /\ sinks = <<>>
    /\ threads = <<>>
    /\ last = NoOp

Next ==
    \E i \in 1..MaxLoggers, opts \in DeriveOpts :
        \/ \E vals \in ArgsOf(i) : With(i, opts, vals)
        \/ \E vals \in ArgsOf(Len(loggers) + 1) : NewChild(i, opts, vals)

Spec == Init /\ [][Next]_vars

-----------------------------------------------------------------------------
(* BufferedSink: the write-behind buffer writer.Buffer puts between a core   *)
(* and its kinesis writer.  A byte is modelled by the number of the Write   *)
(* it came from; a batch is what one PutRecord carries.                    *)

\* The state of the BufferedSink behind a release handle, with its
\* destination: the bytes buffered, the batches the destination received,
\* the destination's health, the holder of the lock (0 when free), whether
\* cancellation was signalled, how often Close was invoked, where the
\* background flush task is, and as history the number of flushes that
\* reached the destination, the number of Writes and the bytes passed to
\* them, the number of flushes Write made for room, how many Close calls
\* returned, whether a Write came after the
\* cancellation, whether the destination ever refused a request, and
\* whether the background task met an error.
NewSink(closer, health) ==
    [size |-> closer.size, buf |-> <<>>, delivered |-> <<>>, health |-> health,
     lock |-> 0, cancelled |-> FALSE, closeCalls |-> 0, bg |-> "waiting",
     flushes |-> 0, writes |-> 0, passed |-> <<>>, spills |-> 0,
     returned |-> 0, late |-> FALSE, refused |-> FALSE, missed |-> FALSE]

\* kinesisWriter.Write(p): one PutRecord carrying p; the record arrives, or
\* the call returns the error of the request.
PutRecord(s, p) ==
    IF s.health = "ok"
    THEN [sink |-> [s EXCEPT !.delivered = Append(@, p)], n |-> Len(p), err |-> ""]
    ELSE [sink |-> [s EXCEPT !.refused = TRUE], n |-> 0, err |-> "PutRecord"]

\* The flush operation as it would be if delivered content stayed buffered.
flushKeepsContent(s) ==
    IF s.buf = <<>> THEN [sink |-> s, err |-> ""]
    ELSE LET w == PutRecord(s, s.buf)
         IN IF w.err # "" THEN [sink |-> w.sink, err |-> w.err]
            ELSE [sink |-> [w.sink EXCEPT !.flushes = @ + 1], err |-> ""]

\* The flush operation: the buffered content goes to the destination as one
\* batch; nothing is sent when nothing is buffered.  Content the
\* destination refused stays buffered.
flush(s) ==
    IF s.buf = <<>> THEN [sink |-> s, err |-> ""]
    ELSE LET w == PutRecord(s, s.buf)
         IN IF w.err # "" THEN [sink |-> w.sink, err |-> w.err]
            ELSE [sink |-> [w.sink EXCEPT !.buf = <<>>, !.flushes = @ + 1],
                  err |-> ""]

\* BufferedSink.Write as it would be if it filled the buffer to its
\* capacity before flushing it, and buffered the rest.
SinkWriteFillsFirst(s, bs) ==
    IF s.buf # <<>> /\ Len(s.buf) + Len(bs) > s.size
    THEN LET room == s.size - Len(s.buf)
             f == flush([s EXCEPT !.buf = @ \o SubSeq(bs, 1, room)])
         IN IF f.err # "" THEN [sink |-> s, n |-> 0, err |-> f.err]
            ELSE [sink |-> [f.sink EXCEPT !.buf = SubSeq(bs, room + 1, Len(bs)),
                                          !.spills = @ + 1],
                  n |-> Len(bs), err |-> ""]
    ELSE [sink |-> [s EXCEPT !.buf = @ \o bs], n |-> Len(bs), err |-> ""]

\* BufferedSink.Write(bs), under the lock: content already buffered is
\* flushed first when bs would exceed the capacity, then bs is buffered.
SinkWrite(s, bs) ==
    IF s.buf # <<>> /\ Len(s.buf) + Len(bs) > s.size
    THEN LET f == flush(s)
         IN IF f.err # "" THEN [sink |-> f.sink, n |-> 0, err |-> f.err]
            ELSE [sink |-> [f.sink EXCEPT !.buf = bs, !.spills = @ + 1],
                  n |-> Len(bs), err |-> ""]
    ELSE [sink |-> [s EXCEPT !.buf = @ \o bs], n |-> Len(bs), err |-> ""]

\* BufferedSink.Sync(), under the lock.
SinkSync(s) == flush(s)

\* Whether an operation on s has to wait for the destination.
Waits(s, op, bs) ==
    /\ s.health = "hanging"
    /\ s.buf # <<>>
    /\ op = "Write" => Len(s.buf) + Len(bs) > s.size

\* The cancellation signal of Close: a background task that waits for its
\* next tick stops; one that is flushing stops when it is done.
cancel(s) ==
    [s EXCEPT !.cancelled = TRUE, !.closeCalls = @ + 1,
              !.bg = IF @ = "waiting" THEN "stopped" ELSE @]

\* BufferedSink.Close(): cancellation is signalled, then one final Sync.
SinkClose(s) ==
    LET f == SinkSync(cancel(s))
    IN [sink |-> [f.sink EXCEPT !.returned = @ + 1], err |-> f.err]

\* The bytes the encoder makes of a record for its k-th Write to a sink: one
\* unit for the entry and its identity fields, one more per further field.
Encode(rec, k) == [j \in 1..(Len(rec.fields) - 5) |-> k]

\* ioCore.Write(ent, fields) on the BufferedSink s: the encoded record is
\* written to the sink, and the sink is synced when the entry is above
\* ErrorLevel; the error of the write is the core's.
coreWrite(s, rec) ==
    LET bs == Encode(rec, s.writes + 1)
        w == SinkWrite([s EXCEPT !.writes = @ + 1, !.passed = @ \o bs,
                                 !.late = @ \/ s.cancelled], bs)
    IN IF w.err # "" THEN [sink |-> w.sink, err |-> w.err]
       ELSE IF rec.level > ErrorLevel THEN [sink |-> SinkSync(w.sink).sink, err |-> ""]
       ELSE [sink |-> w.sink, err |-> ""]

\* The sinks after the cores wrote the records of one entry.  A core whose
\* output is not a BufferedSink that is tracked leaves them as they are.
RECURSIVE Deliver(_, _)
Deliver(sk, written) ==
    IF written = <<>> THEN sk
    ELSE LET rec == Head(written)
         IN Deliver(IF rec.sink \in DOMAIN sk
                    THEN [sk EXCEPT ![rec.sink] = coreWrite(sk[rec.sink], rec).sink]
                    ELSE sk,
                    Tail(written))

-----------------------------------------------------------------------------
(* Emission: the leveled methods and Report *)

\* The counter the sampler keeps for a level after n entries of a tick.  From
\* SamplingInitial on, its decisions repeat every SamplingThereafter
\* entries, so the count is kept modulo that period.
Count(n) ==
    IF n >= SamplingInitial + SamplingThereafter THEN SamplingInitial ELSE n

\* zap's Logger.check(lvl, msg) on the zap logger z with sampler counters smp:
\* the cores that will write the entry, what to do after the write, and the
\* counters afterwards.  The core is asked first (a sampled core counts the
\* entries of an enabled level and drops the ones the sampler does not
\* let through); Panic, Fatal, and DPanic in development then set the
\* after-write action, whether or not a core will write.
check(z, smp, lvl) ==
    LET enabled == lvl >= z.core.level
        n == smp[lvl] + 1
        counted == z.core.sampled /\ enabled
        dropped == /\ counted
                   /\ n > SamplingInitial
                   /\ (n - SamplingInitial) % SamplingThereafter # 0
        should == IF lvl = PanicLevel THEN "WriteThenPanic"
                  ELSE IF lvl = FatalLevel THEN "WriteThenFatal"
                  ELSE IF lvl = DPanicLevel /\ z.development THEN "WriteThenPanic"
                  ELSE "WriteThenNoop"
    IN [cores |-> IF enabled /\ ~dropped THEN <<z.core.sink>> ELSE <<>>,
        should |-> should,
        isNil |-> ~(enabled /\ ~dropped) /\ should = "WriteThenNoop",
        sampler |-> IF counted THEN [smp EXCEPT ![lvl] = Count(n)] ELSE smp]

\* ce.Write(f...): one record per core of the checked entry.
Write(ce, lvl, f) ==
    [k \in 1..Len(ce.cores) |-> [sink |-> ce.cores[k], level |-> lvl, fields |-> f]]

\* z.Debug / Info / Warn / Error / DPanic / Panic (msg, f...):
\* if ce := check(lvl, msg); ce != nil { ce.Write(f...) }
log(z, smp, lvl, f) ==
    LET ce == check(z, smp, lvl)
    IN [written |-> IF ce.isNil THEN <<>> ELSE Write(ce, lvl, f),
        panicked |-> ~ce.isNil /\ ce.should = "WriteThenPanic",
        exits |-> IF ~ce.isNil /\ ce.should = "WriteThenFatal" THEN 1 ELSE 0,
        sampler |-> ce.sampler]

\* What a step records of an emission by logger i.
Outcome(op, i, vals, r) ==
    [op |-> op, l |-> i, vals |-> vals, written |-> r.written,
     panicked |-> r.panicked, exits |-> r.exits]

\* A leveled method of logger i on its monitor pipeline.
leveled(op, i, lvl, vals) ==
    /\ i \in 1..Len(loggers)
    /\ LET f == getZapFields(heap, loggers[i], vals)
           r == log(loggers[i].monitorLogger, sampler, lvl, f)
       IN /\ sampler' = r.sampler
          /\ sinks' = Deliver(sinks, r.written)
          /\ last' = Outcome(op, i, vals, r)
    /\ UNCHANGED <<heap, loggers, derivedFrom, accumulated, world, threads>>

Debug(i, vals) == leveled("Debug", i, DebugLevel, vals)

Info(i, vals) == leveled("Info", i, InfoLevel, vals)

Warn(i, vals) == leveled("Warn", i, WarnLevel, vals)

Error(i, vals) == leveled("Error", i, ErrorLevel, vals)

DPanic(i, vals) == leveled("DPanic", i, DPanicLevel, vals)

\* Panic as it would be if the fault were raised by the write of the record.
PanicWhenWritten(i, vals) ==
    /\ i \in 1..Len(loggers)
    /\ LET f == getZapFields(heap, loggers[i], vals)
           r == log(loggers[i].monitorLogger, sampler, PanicLevel, f)
       IN /\ sampler' = r.sampler
          /\ sinks' = Deliver(sinks, r.written)
          /\ last' = Outcome("Panic", i, vals,
                             [r EXCEPT !.panicked = r.written # <<>>])
    /\ UNCHANGED <<heap, loggers, derivedFrom, accumulated, world, threads>>

Panic(i, vals) == leveled("Panic", i, PanicLevel, vals)

\* Report: Info on the reporting pipeline.
Report(i, vals) ==
    /\ i \in 1..Len(loggers)
    /\ LET f == getZapFields(heap, loggers[i], vals)
           r == log(loggers[i].reportingLogger, sampler, InfoLevel, f)
       IN /\ sampler' = r.sampler
          /\ sinks' = Deliver(sinks, r.written)
          /\ last' = Outcome("Report", i, vals, r)
    /\ UNCHANGED <<heap, loggers, derivedFrom, accumulated, world, threads>>

\* Fatal as it would be if exit.Exit() were called where the record is written.
FatalWhenWritten(i, vals) ==
    /\ i \in 1..Len(loggers)
    /\ LET f == getZapFields(heap, loggers[i], vals)
           ce == check(loggers[i].monitorLogger, sampler, FatalLevel)
           r == [written |-> IF ce.isNil THEN <<>> ELSE Write(ce, FatalLevel, f),
                 panicked |-> FALSE,
                 exits |-> IF ce.cores # <<>> THEN 1 ELSE 0,
                 sampler |-> ce.sampler]
       IN /\ sampler' = r.sampler
          /\ sinks' = Deliver(sinks, r.written)
          /\ last' = Outcome("Fatal", i, vals, r)
    /\ UNCHANGED <<heap, loggers, derivedFrom, accumulated, world, threads>>

\* Fatal: the checked entry's after-write action is replaced by
\* WriteThenNoop, the entry is written, and exit.Exit() is called.
Fatal(i, vals) ==
    /\ i \in 1..Len(loggers)
    /\ LET f == getZapFields(heap, loggers[i], vals)
           ce == check(loggers[i].monitorLogger, sampler, FatalLevel)
           r == [written |-> IF ce.isNil THEN <<>> ELSE Write(ce, FatalLevel, f),
                 panicked |-> FALSE,
                 exits |-> 1,
                 sampler |-> ce.sampler]
       IN /\ sampler' = r.sampler
          /\ sinks' = Deliver(sinks, r.written)
          /\ last' = Outcome("Fatal", i, vals, r)
    /\ UNCHANGED <<heap, loggers, derivedFrom, accumulated, world, threads>>

\* A tick of the sampler elapses: its counters start again.
Tick ==
    /\ sampler # NoCounts
    /\ sampler' = NoCounts
    /\ UNCHANGED <<heap, loggers, derivedFrom, accumulated, world, sinks, threads, last>>

-----------------------------------------------------------------------------
(* Level gating: one logger, every configuration of its pipelines, calls    *)
(* of every severity                                                       *)

\* The number of levels that have entries counted by the sampler in one tick.
MaxHot == 1

Levels == DebugLevel..FatalLevel

\* A world where AWS is reachable and both delivery streams exist.
AwsWorld == [NoWorld EXCEPT !.aws = [session |-> TRUE, streams |-> {"mon", "rep"}]]

LevelConfigs ==
    {[ZeroConfig EXCEPT !.ServiceName = "svc", !.LogLevel = lv,
                        !.EnableDevLogging = dev, !.DisableKinesis = kin,
                        !.KinesisStreamMonitoring = "mon",
                        !.KinesisStreamReporting = rep] :
        lv \in DebugLevel..(FatalLevel + 1), dev \in {"true", "false"},
        kin \in {"true", "false"},
        rep \in {"", "rep"}}

InitLevel ==
    /\ heap = <<>>
    /\ \E c \in LevelConfigs : loggers = <<NewLogger(c, AwsWorld).logger>>
    /\ derivedFrom = <<0>>
    /\ accumulated = <<(<<>>)>>
    /\ sampler = NoCounts
    /\ world = AwsWorld
    /\ sinks = <<>>
    /\ threads = <<>>
    /\ last = NoOp

Hot(lvl) == Cardinality({k \in Levels : sampler[k] > 0} \cup {lvl}) <= MaxHot

NextLevel ==
    \/ Hot(DebugLevel) /\ Debug(1, <<>>)
    \/ Hot(InfoLevel) /\ Info(1, <<>>)
    \/ Hot(WarnLevel) /\ Warn(1, <<>>)
    \/ Hot(ErrorLevel) /\ Error(1, <<>>)
    \/ Hot(DPanicLevel) /\ DPanic(1, <<>>)
    \/ Hot(PanicLevel) /\ Panic(1, <<>>)
    \/ Hot(FatalLevel) /\ Fatal(1, <<>>)
    \/ Hot(InfoLevel) /\ Report(1, <<>>)
    \/ Tick

SpecLevel == InitLevel /\ [][NextLevel]_vars

\* The minimum level the logger was configured with.
MinLevel == loggers[1].monitorLogger.core.level

MonitorOps == {"Debug", "Info", "Warn", "Error", "DPanic", "Panic", "Fatal"}

LevelOf(op) ==
    CASE op = "Debug" -> DebugLevel
      [] op \in {"Info", "Report"} -> InfoLevel
      [] op = "Warn" -> WarnLevel
      [] op = "Error" -> ErrorLevel
      [] op = "DPanic" -> DPanicLevel
      [] op = "Panic" -> PanicLevel
      [] op = "Fatal" -> FatalLevel

\* C4: a leveled call of severity S on the monitor pipeline of a logger
\* configured at minimum level L writes exactly one record when S >= L and
\* none when S < L, whatever calls came before.
C4_LevelGating ==
    last.op \in MonitorOps =>
        Len(last.written) = (IF LevelOf(last.op) >= MinLevel THEN 1 ELSE 0)

\* The calls that raise a fault or end the process, alone.
NextFault ==
    \/ Hot(PanicLevel) /\ Panic(1, <<>>)
    \/ Hot(FatalLevel) /\ Fatal(1, <<>>)
    \/ Tick

SpecFault == InitLevel /\ [][NextFault]_vars

\* C5: every call to Panic raises a panic, at every configured minimum
\* level; when the minimum level is above Panic no record is written and the
\* panic is still raised.
C5_PanicAlwaysPanics ==
    last.op = "Panic" =>
        /\ last.panicked
        /\ (MinLevel > PanicLevel => last.written = <<>>)

C5_Witness ==
    /\ last.op = "Panic"
    /\ MinLevel > PanicLevel
    /\ last.panicked
    /\ last.written = <<>>

\* C6: every call to Fatal invokes the exit hook, at every configured
\* minimum level; when the minimum level is above Fatal no record is written
\* and the exit hook is still invoked.
C6_FatalAlwaysExits ==
    last.op = "Fatal" =>
        /\ last.exits = 1
        /\ (MinLevel > FatalLevel => last.written = <<>>)

C6_Witness ==
    /\ last.op = "Fatal"
    /\ MinLevel > FatalLevel
    /\ last.exits = 1
    /\ last.written = <<>>

-----------------------------------------------------------------------------
(* Accumulated fields: a logger and its children, lists of up to two fields *)

\* The number of loggers of the field specification.
MaxPair == 2

\* The field lists passed in the field specification, tagged with the logger
\* they are given to: none or two to With, none or one to NewChild.
WithArgs(i) == {<<>>, <<Int64("f", i), Int64("g", i)>>}
ChildArgs(i) == {<<>>, <<Int64("f", i)>>}

NextFields ==
    \E i \in 1..MaxPair, opts \in DeriveOpts :
        \/ \E vals \in WithArgs(i) : With(i, opts, vals)
        \/ /\ Len(loggers) < MaxPair
           /\ \E vals \in ChildArgs(Len(loggers) + 1) : NewChild(i, opts, vals)

SpecFields == Init /\ [][NextFields]_vars

\* The accumulated fields of logger i in the state with heap h and loggers ls.
Acc(h, ls, i) == Elems(h, ls[i].fields)

\* The logger a derivation step configures: the child for NewChild, the
\* logger itself for With.
Target(o) == IF o.op = "NewChild" THEN o.child ELSE o.l

\* C9: With / NewChild with nil options or with OverwriteAccumulatedFields
\* unset leaves the accumulated fields in place and appends the supplied
\* fields after them in order; with OverwriteAccumulatedFields set the
\* accumulated fields become exactly the supplied fields, none when no
\* fields are supplied.
C9_AppendOrReplace ==
    [][last'.op \in {"With", "NewChild"} =>
          Acc(heap', loggers', Target(last'))
             = IF ~last'.opts.isNil /\ last'.opts.OverwriteAccumulatedFields
               THEN last'.vals
               ELSE Acc(heap, loggers, last'.l) \o last'.vals]_vars

\* Two fields have been appended after existing ones.
C9_Witness ==
    /\ last.op \in {"With", "NewChild"}
    /\ Len(last.vals) = 2
    /\ last.opts.isNil
    /\ Len(Acc(heap, loggers, Target(last))) > 2

-----------------------------------------------------------------------------
(* Identity attributes: one With or NewChild on a logger, for every value   *)
(* of the attributes and of the options                                    *)

\* The values an attribute has before the call, and the values supplied.
OldValues == {"", "o"}
NewValues == {"", "n"}

IdentityOpts ==
    {NilOpts} \cup
    [isNil : {FALSE},
     Endpoint : NewValues, CorrelationID : NewValues, TraceabilityID : NewValues,
     ClientID : NewValues, UserID : NewValues,
     OverwriteAccumulatedFields : {FALSE},
     ResetEndpoint : BOOLEAN, ResetCorrelationID : BOOLEAN,
     ResetTraceabilityID : BOOLEAN, ResetClientID : BOOLEAN,
     ResetUserID : BOOLEAN]

InitOpts ==
    /\ heap = <<>>
    /\ \E e, c, t, cl, u \in OldValues :
          loggers = <<[NewLogger([ZeroConfig EXCEPT !.ServiceName = "svc"], NoWorld).logger
                         EXCEPT !.endpoint = e, !.correlationID = c,
                                !.traceabilityID = t, !.clientID = cl,
                                !.userID = u]>>
    /\ derivedFrom = <<0>>
    /\ accumulated = <<(<<>>)>>
    /\ sampler = NoCounts
    /\ world = NoWorld
    /\ sinks = <<>>
    /\ threads = <<>>
    /\ last = NoOp

NextOpts ==
    /\ last = NoOp
    /\ \E opts \in IdentityOpts :
          \/ With(1, opts, <<>>)
          \/ NewChild(1, opts, <<>>)

SpecOpts == InitOpts /\ [][NextOpts]_vars

\* C8: after With or NewChild with non-nil options each identity attribute is
\* empty if its Reset flag is set, else the supplied value if that is not
\* empty, else what it was; with nil options, and for the service name, it is
\* what it was.
C8_MergeRule ==
    [][last'.op \in {"With", "NewChild"} =>
          LET old == loggers[last'.l]
              new == loggers'[Target(last')]
              o == last'.opts
              Rule(was, reset, val) ==
                  CASE o.isNil -> was
                    [] ~o.isNil /\ reset -> ""
                    [] ~o.isNil /\ ~reset /\ val # "" -> val
                    [] OTHER -> was
          IN /\ new.endpoint = Rule(old.endpoint, o.ResetEndpoint, o.Endpoint)
             /\ new.correlationID
                   = Rule(old.correlationID, o.ResetCorrelationID, o.CorrelationID)
             /\ new.traceabilityID
                   = Rule(old.traceabilityID, o.ResetTraceabilityID, o.TraceabilityID)
             /\ new.clientID = Rule(old.clientID, o.ResetClientID, o.ClientID)
             /\ new.userID = Rule(old.userID, o.ResetUserID, o.UserID)
             /\ new.serviceName = old.serviceName]_vars

\* A call has reset one attribute for which it also supplied a value, has
\* overwritten another, and has left a third as it was.
C8_Witness ==
    /\ last.op = "NewChild"
    /\ ~last.opts.isNil
    /\ last.opts.ResetEndpoint /\ last.opts.Endpoint = "n"
    /\ loggers[1].endpoint = "o" /\ loggers[2].endpoint = ""
    /\ ~last.opts.ResetUserID /\ last.opts.UserID = "n"
    /\ loggers[1].userID = "o" /\ loggers[2].userID = "n"
    /\ ~last.opts.ResetClientID /\ last.opts.ClientID = ""
    /\ loggers[1].clientID = "o" /\ loggers[2].clientID = "o"

-----------------------------------------------------------------------------
(* Records: a logger and one child accumulate fields and emit, with and     *)
(* without call-site fields, on pipelines that let every level through     *)

\* The call-site fields passed in the record specification.
CallArgs == {<<>>, <<Int64("c", 1), Int64("d", 2)>>}

\* Development logging at Debug, both kinesis pipelines.
EmitConfig ==
    [ZeroConfig EXCEPT !.ServiceName = "svc", !.LogLevel = DebugLevel,
                       !.EnableDevLogging = "true", !.DisableKinesis = "false",
                       !.KinesisStreamMonitoring = "mon",
                       !.KinesisStreamReporting = "rep"]

InitEmit ==
    /\ heap = <<>>
    /\ loggers = <<NewLogger(EmitConfig, AwsWorld).logger>>
    /\ derivedFrom = <<0>>
    /\ accumulated = <<(<<>>)>>
    /\ sampler = NoCounts
    /\ world = AwsWorld
    /\ sinks = <<>>
    /\ threads = <<>>
    /\ last = NoOp

NextEmit ==
    \E i \in 1..MaxPair :
        \/ \E vals \in ArgsOf(i) : With(i, NilOpts, vals)
        \/ /\ Len(loggers) < MaxPair
           /\ \E vals \in ArgsOf(Len(loggers) + 1) : NewChild(i, NilOpts, vals)
        \/ \E vals \in CallArgs :
              \/ Debug(i, vals)
              \/ Info(i, vals)
              \/ Warn(i, vals)
              \/ Error(i, vals)
              \/ DPanic(i, vals)
              \/ Panic(i, vals)
              \/ Fatal(i, vals)
              \/ Report(i, vals)

SpecEmit == InitEmit /\ [][NextEmit]_vars

EmitOps == MonitorOps \cup {"Report"}

\* The six identity fields of logger l, in the order of a record.
Identity(l) ==
    <<(<<"service", l.serviceName>>), (<<"endpoint", l.endpoint>>),
      (<<"traceabilityID", l.traceabilityID>>),
      (<<"correlationID", l.correlationID>>),
      (<<"userID", l.userID>>), (<<"clientID", l.clientID>>)>>

\* C7: every record emitted by a leveled method or Report holds the six
\* identity fields (service, endpoint, traceabilityID, correlationID, userID,
\* clientID), then the fields accumulated on the logger, oldest first, then
\* the call-site fields in call order, and nothing else: 6 + accumulated +
\* call-site fields.
C7_RecordOrder ==
    last.op \in EmitOps =>
        \A k \in 1..Len(last.written) :
            /\ last.written[k].fields
                  = Identity(loggers[last.l])
                       \o Supplied(accumulated[last.l]) \o Supplied(last.vals)
            /\ Len(last.written[k].fields)
                  = 6 + Len(accumulated[last.l]) + Len(last.vals)

-----------------------------------------------------------------------------
(* Construction: NewLogger called once, for every supplied configuration,   *)
(* environment and state of AWS                                            *)

Envs ==
    [LOG_NAME : {""}, SERVICE_NAME : {""},
     LOG_LEVEL : {"", "DeBuG", "bogus"},
     LOG_ENABLE_DEV : {"", "TRUE", "maybe"},
     LOG_STREAM_MONITORING : {"", "mon"},
     LOG_STREAM_REPORTING : {""},
     LOG_DISABLE_KINESIS : {"", "FALSE", "nope"},
     LOG_FLUSH_INTERVAL : {"", "7", "x"},
     LOG_BUFFER_SIZE : {"", "x"}]

\* No AWS session; a session and no stream, the monitoring stream, or both.
Clouds ==
    {[session |-> FALSE, streams |-> {}], [session |-> TRUE, streams |-> {}],
     [session |-> TRUE, streams |-> {"mon"}],
     [session |-> TRUE, streams |-> {"mon", "rep"}]}

Configs ==
    {NilConfig} \cup
    {[ZeroConfig EXCEPT !.LogLevel = lv, !.EnableDevLogging = dev,
                        !.DisableKinesis = kin,
                        !.KinesisStreamMonitoring = mon,
                        !.KinesisStreamReporting = rep] :
        lv \in {0, WarnLevel}, dev \in {"nil", "true"},
        kin \in {"nil", "false", "true"}, mon \in {"", "mon"}, rep \in {"", "rep"}}

InitNew ==
    /\ heap = <<>>
    /\ loggers = <<>>
    /\ derivedFrom = <<>>
    /\ accumulated = <<>>
    /\ sampler = NoCounts
    /\ world \in [env : Envs, aws : Clouds]
    /\ sinks = <<>>
    /\ threads = <<>>
    /\ last = NoOp

\* l, err := NewLogger(config): the step records the result, and the
\* logger exists from then on if there was no error.
Construct(config) ==
    /\ last' = [op |-> "NewLogger", config |-> config,
                result |-> NewLogger(config, world)]
    /\ loggers' = IF last'.result.err = "" THEN <<last'.result.logger>> ELSE <<>>
    /\ derivedFrom' = IF last'.result.err = "" THEN <<0>> ELSE <<>>
    /\ accumulated' = IF last'.result.err = "" THEN <<(<<>>)>> ELSE <<>>
    /\ UNCHANGED <<heap, sampler, world, sinks, threads>>

\* NewLogger is called once.
NextNew ==
    /\ last = NoOp
    /\ \E config \in Configs : Construct(config)

SpecNew == InitNew /\ [][NextNew]_vars

\* The configuration supplied to the last NewLogger, nil read as Config{}.
SuppliedConfig == IF last.config.isNil THEN ZeroConfig ELSE last.config

\* The texts that are a level, a boolean, a number.
IsLevelText(s) ==
    ToLower(s) \in {"debug", "info", "warn", "error", "dpanic", "panic", "fatal"}
TrueTexts == {"1", "t", "T", "TRUE", "true", "True"}
FalseTexts == {"0", "f", "F", "FALSE", "false", "False"}
IsNumberText(s) == s \in {"7", "1024"}

\* A setting that is not supplied is read from the environment, and is
\* invalid when its text there does not parse.
InvalidSetting ==
    \/ SuppliedConfig.LogLevel = 0
          /\ world.env.LOG_LEVEL # "" /\ ~IsLevelText(world.env.LOG_LEVEL)
    \/ SuppliedConfig.EnableDevLogging = "nil"
          /\ world.env.LOG_ENABLE_DEV \notin {""} \cup TrueTexts \cup FalseTexts
    \/ SuppliedConfig.DisableKinesis = "nil"
          /\ world.env.LOG_DISABLE_KINESIS \notin {""} \cup TrueTexts \cup FalseTexts
    \/ SuppliedConfig.FlushInterval = 0
          /\ world.env.LOG_FLUSH_INTERVAL # "" /\ ~IsNumberText(world.env.LOG_FLUSH_INTERVAL)
    \/ SuppliedConfig.BufferSize = 0
          /\ world.env.LOG_BUFFER_SIZE # "" /\ ~IsNumberText(world.env.LOG_BUFFER_SIZE)

\* Kinesis is enabled by a supplied false, or else by the environment; it is
\* disabled by default.
KinesisOn ==
    IF SuppliedConfig.DisableKinesis # "nil"
    THEN SuppliedConfig.DisableKinesis = "false"
    ELSE world.env.LOG_DISABLE_KINESIS \in FalseTexts

\* The names of the configured streams: supplied, or else the environment's.
MonitorStream ==
    IF SuppliedConfig.KinesisStreamMonitoring # ""
    THEN SuppliedConfig.KinesisStreamMonitoring
    ELSE world.env.LOG_STREAM_MONITORING

ReportStream ==
    IF SuppliedConfig.KinesisStreamReporting # ""
    THEN SuppliedConfig.KinesisStreamReporting
    ELSE world.env.LOG_STREAM_REPORTING

Attachable(stream) == world.aws.session /\ stream \in world.aws.streams

\* A destination of a configured pipeline cannot be attached.
Unattachable ==
    /\ KinesisOn
    /\ \/ ~Attachable(MonitorStream)
       \/ ReportStream # "" /\ ~Attachable(ReportStream)

\* C10: when NewLogger meets an invalid setting (level, boolean, number) or
\* a destination that cannot be attached, it returns an error and a nil
\* Logger; the Logger is nil whenever there is an error; a Logger that is
\* not nil has every configured pipeline built.
C10_FailsClosed ==
    last.op = "NewLogger" =>
        LET r == last.result
        IN /\ (InvalidSetting \/ Unattachable => r.err # "" /\ r.logger = NilValue)
           /\ (r.err # "" => r.logger = NilValue)
           /\ (r.logger # NilValue =>
                  /\ r.err = ""
                  /\ KinesisOn =>
                        /\ r.logger.monitorLogger.core.sink = MonitorStream
                        /\ Attachable(MonitorStream)
                        /\ ReportStream # "" =>
                              /\ r.logger.reportingLogger.core.sink = ReportStream
                              /\ Attachable(ReportStream)
                        /\ Len(r.logger.closers) = IF ReportStream # "" THEN 2 ELSE 1)

\* NewLogger attached the monitor pipeline, could not attach the report
\* pipeline, and returned an error and no Logger.
C10_Witness ==
    /\ last.op = "NewLogger"
    /\ ~InvalidSetting
    /\ KinesisOn
    /\ Attachable(MonitorStream)
    /\ ReportStream # "" /\ ~Attachable(ReportStream)
    /\ last.result.err # ""
    /\ last.result.logger = NilValue

-----------------------------------------------------------------------------
(* Isolation of derived contexts *)

\* C1 (sibling isolation): a NewChild with nil options gives the child a record
\* of the parent's fields followed by the supplied ones, and changes the record
\* of no logger that already exists: siblings derived earlier and the parent
\* emit what they emitted before.
C1_SiblingIsolation ==
    [][last'.op = "NewChild" =>
          /\ (last'.opts.isNil =>
                 RecordOf(heap', loggers', last'.child)
                    = RecordOf(heap, loggers, last'.l) \o Supplied(last'.vals))
          /\ \A x \in 1..Len(loggers) :
                 RecordOf(heap', loggers', x) = RecordOf(heap, loggers, x)]_vars

\* C2 (parent-to-child isolation): a With on a logger changes the record of
\* none of the loggers derived from it by NewChild.
C2_ParentToChild ==
    [][last'.op = "With" =>
          \A c \in 1..Len(loggers) :
              derivedFrom[c] = last'.l =>
                  RecordOf(heap', loggers', c) = RecordOf(heap, loggers, c)]_vars

\* C3 (child-to-parent isolation): NewChild leaves the parent's record as it
\* was, and a With on a derived logger leaves the record of the logger it was
\* derived from as it was.
C3_ChildToParent ==
    [][/\ (last'.op = "NewChild" =>
              RecordOf(heap', loggers', last'.l) = RecordOf(heap, loggers, last'.l))
       /\ (last'.op = "With" /\ derivedFrom[last'.l] # 0 =>
              RecordOf(heap', loggers', derivedFrom[last'.l])
                 = RecordOf(heap, loggers, derivedFrom[last'.l]))]_vars

-----------------------------------------------------------------------------
(* Shutdown: Logger.Sync and Logger.Close, on a root logger and the loggers *)
(* derived from it, over destinations that fail and recover                 *)

MaxWrites == 2
MaxCloses == 2

\* multierr.Append(err, e), an error being the sequence of the errors it
\* holds (<<>> for nil) and e one error ("" for nil).
multierrAppend(err, e) == IF e = "" THEN err ELSE Append(err, e)

\* (*zap.Logger).Sync(): the core's output is synced.  A BufferedSink is
\* flushed; standard output is synced by the operating system.
zapSync(sk, z, w) ==
    IF z.core.sink \in DOMAIN sk
    THEN LET f == SinkSync(sk[z.core.sink])
         IN [sinks |-> [sk EXCEPT ![z.core.sink] = f.sink], err |-> f.err]
    ELSE [sinks |-> sk, err |-> w.stdout]

\* Whether the BufferedSink st can be flushed now: its lock is free and its
\* destination answers.
Free(st) == sinks[st].lock = 0 /\ ~Waits(sinks[st], "Sync", <<>>)

\* Whether the outputs of both zap loggers of logger i can be synced now.
CanSync(i) ==
    \A z \in {loggers[i].reportingLogger, loggers[i].monitorLogger} :
        z.core.sink \in DOMAIN sinks => Free(z.core.sink)

\* Whether every release handle of logger i can be closed now.
CanClose(i) ==
    \A k \in 1..Len(loggers[i].closers) : Free(loggers[i].closers[k].stream)

\* Logger.Sync as it would be if it returned at the first error.
SyncShortCircuits(i) ==
    /\ i \in 1..Len(loggers)
    /\ CanSync(i)
    /\ LET r == zapSync(sinks, loggers[i].reportingLogger, world)
           m == zapSync(r.sinks, loggers[i].monitorLogger, world)
       IN IF r.err # ""
          THEN /\ sinks' = r.sinks
               /\ last' = [op |-> "Sync", l |-> i, errs |-> <<r.err>>,
                           err |-> <<r.err>>]
          ELSE /\ sinks' = m.sinks
               /\ last' = [op |-> "Sync", l |-> i, errs |-> <<r.err, m.err>>,
                           err |-> multierrAppend(<<>>, m.err)]
    /\ UNCHANGED <<heap, loggers, derivedFrom, accumulated, sampler, world, threads>>

\* l.Sync(): the reporting logger is synced, then the monitor logger; the
\* step records the error of each and the error returned.
Sync(i) ==
    /\ i \in 1..Len(loggers)
    /\ CanSync(i)
    /\ LET r == zapSync(sinks, loggers[i].reportingLogger, world)
           m == zapSync(r.sinks, loggers[i].monitorLogger, world)
       IN /\ sinks' = m.sinks
          /\ last' = [op |-> "Sync", l |-> i, errs |-> <<r.err, m.err>>,
                      err |-> multierrAppend(multierrAppend(<<>>, r.err), m.err)]
    /\ UNCHANGED <<heap, loggers, derivedFrom, accumulated, sampler, world, threads>>

\* The loop of Logger.Close from closer k on: [sinks, calls, err], calls
\* being the error of each Close it invoked.
RECURSIVE closeFrom(_, _, _, _, _)
closeFrom(sk, closers, k, calls, err) ==
    IF k > Len(closers) THEN [sinks |-> sk, calls |-> calls, err |-> err]
    ELSE LET c == SinkClose(sk[closers[k].stream])
         IN closeFrom([sk EXCEPT ![closers[k].stream] = c.sink], closers, k + 1,
                      Append(calls, c.err), multierrAppend(err, c.err))

\* Logger.Close as it would be if it returned at the first error.
CloseStopsAtFirst(i) ==
    /\ i \in 1..Len(loggers)
    /\ CanClose(i)
    /\ \A st \in DOMAIN sinks : sinks[st].closeCalls < MaxCloses
    /\ LET closers == loggers[i].closers
           all == closeFrom(sinks, closers, 1, <<>>, <<>>)
           one == closeFrom(sinks, IF closers = <<>> THEN <<>> ELSE <<closers[1]>>,
                            1, <<>>, <<>>)
           r == IF one.err # <<>> THEN one ELSE all
       IN /\ sinks' = r.sinks
          /\ last' = [op |-> "Close", l |-> i, calls |-> r.calls, err |-> r.err]
    /\ UNCHANGED <<heap, loggers, derivedFrom, accumulated, sampler, world, threads>>

\* l.Close(): Close of every release handle in turn, the errors appended.
Close(i) ==
    /\ i \in 1..Len(loggers)
    /\ CanClose(i)
    /\ \A st \in DOMAIN sinks : sinks[st].closeCalls < MaxCloses
    /\ sinks' = closeFrom(sinks, loggers[i].closers, 1, <<>>, <<>>).sinks
    /\ last' = [op |-> "Close", l |-> i,
                calls |-> closeFrom(sinks, loggers[i].closers, 1, <<>>, <<>>).calls,
                err |-> closeFrom(sinks, loggers[i].closers, 1, <<>>, <<>>).err]
    /\ UNCHANGED <<heap, loggers, derivedFrom, accumulated, sampler, world, threads>>

\* The destination of a BufferedSink starts or stops refusing requests.
Degrade(st) ==
    /\ st \in DOMAIN sinks
    /\ sinks[st].health = "ok"
    /\ sinks' = [sinks EXCEPT ![st].health = "failing"]
    /\ UNCHANGED <<heap, loggers, derivedFrom, accumulated, sampler, world, threads, last>>

Recover(st) ==
    /\ st \in DOMAIN sinks
    /\ sinks[st].health # "ok"
    /\ sinks' = [sinks EXCEPT ![st].health = "ok"]
    /\ UNCHANGED <<heap, loggers, derivedFrom, accumulated, sampler, world, threads, last>>

\* The BufferedSinks behind the release handles NewLogger started.
StartSinks(started) ==
    [st \in {started[k].stream : k \in DOMAIN started} |->
        NewSink(CHOOSE c \in {started[k] : k \in DOMAIN started} : c.stream = st, "ok")]

CloseConfigs ==
    {[ZeroConfig EXCEPT !.ServiceName = "svc", !.EnableDevLogging = "true",
                        !.DisableKinesis = kin,
                        !.KinesisStreamMonitoring = "mon",
                        !.KinesisStreamReporting = rep] :
        kin \in {"true", "false"}, rep \in {"", "rep"}}

\* The process environment with what a sync of standard output returns:
\* the error it returns on a terminal.
StdWorld == [env |-> NoEnv, aws |-> AwsWorld.aws, stdout |-> "EINVAL"]

InitClose ==
    /\ heap = <<>>
    /\ world = StdWorld
    /\ \E c \in CloseConfigs :
          /\ loggers = <<NewLogger(c, world).logger>>
          /\ sinks = StartSinks(NewLogger(c, world).started)
    /\ derivedFrom = <<0>>
    /\ accumulated = <<(<<>>)>>
    /\ sampler = NoCounts
    /\ threads = <<>>
    /\ last = NoOp

Quota == \A st \in DOMAIN sinks : sinks[st].writes < MaxWrites

NextClose ==
    \/ Len(loggers) < MaxPair /\ NewChild(1, NilOpts, <<>>)
    \/ \E i \in 1..MaxPair :
          \/ Sync(i)
          \/ Close(i)
    \/ Quota /\ Info(1, <<>>)
    \/ Quota /\ Report(1, <<>>)
    \/ \E st \in {"mon", "rep"} : Degrade(st) \/ Recover(st)

SpecClose == InitClose /\ [][NextClose]_vars

\* C11: over any sequence of Close calls on a root Logger and the Loggers
\* derived from it by NewChild, the Close of each release handle is
\* invoked at most once.
C11_ReleasedOnce == \A st \in DOMAIN sinks : sinks[st].closeCalls <= 1

\* C12: Logger.Close invokes Close on every release handle of the logger,
\* also after an earlier one failed (every sink is cancelled afterwards, and
\* a sink is left with content exactly when its Close failed), and the
\* error returned holds every failure, nil exactly when none failed.
C12_CloseAggregates ==
    last.op = "Close" =>
        LET closers == loggers[last.l].closers
        IN /\ Len(last.calls) = Len(closers)
           /\ \A k \in 1..Len(closers) :
                 /\ sinks[closers[k].stream].cancelled
                 /\ last.calls[k] # "" <=> sinks[closers[k].stream].buf # <<>>
           /\ last.err = SelectSeq(last.calls, LAMBDA e : e # "")
           /\ last.err = <<>> <=> \A k \in 1..Len(closers) : last.calls[k] = ""

\* A Close whose first handle failed and whose second handle was closed,
\* delivering its content.
C12_Witness ==
    /\ last.op = "Close"
    /\ Len(last.calls) = 2
    /\ last.calls[1] # ""
    /\ last.calls[2] = ""
    /\ sinks["rep"].closeCalls = 1
    /\ sinks["rep"].delivered # <<>>

\* C13: Logger.Sync flushes the report pipeline, then the monitor pipeline
\* also when the report flush failed (a buffered pipeline whose flush
\* succeeded is empty afterwards), and the error returned holds the error
\* of each pipeline that failed, nil exactly when both succeeded.
C13_SyncBoth ==
    last.op = "Sync" =>
        LET l == loggers[last.l]
            pipes == <<l.reportingLogger.core.sink, l.monitorLogger.core.sink>>
        IN /\ Len(last.errs) = 2
           /\ \A k \in 1..2 :
                 pipes[k] \in DOMAIN sinks =>
                     (last.errs[k] = "" <=> sinks[pipes[k]].buf = <<>>)
           /\ last.err = SelectSeq(last.errs, LAMBDA e : e # "")
           /\ last.err = <<>> <=> (last.errs[1] = "" /\ last.errs[2] = "")

\* A Sync whose report flush failed and whose monitor flush delivered.
C13_Witness ==
    /\ last.op = "Sync"
    /\ last.errs[1] # ""
    /\ last.errs[2] = ""
    /\ "mon" \in DOMAIN sinks /\ "rep" \in DOMAIN sinks
    /\ sinks["rep"].buf # <<>>
    /\ sinks["mon"].delivered # <<>>
    /\ sinks["mon"].buf = <<>>

-----------------------------------------------------------------------------
(* Goroutines: emission calls made by several goroutines, a call being the  *)
(* steps getZapFields and zap's check, then the write of the checked entry  *)

MaxThreads == 2

Idle == [pc |-> "idle"]

\* The zap logger a method of l emits through.
zapOf(l, op) == IF op = "Report" THEN l.reportingLogger ELSE l.monitorLogger

\* The output the checked entry of goroutine th will be written to, "" for none.
sinkOf(th) == IF th.ce.isNil \/ th.ce.cores = <<>> THEN "" ELSE th.ce.cores[1]

\* The heap without the array a, and the goroutines with the arrays after
\* it renumbered: a call's field array is garbage once the call returned.
release(h, a) == [k \in 1..(Len(h) - 1) |-> IF k < a THEN h[k] ELSE h[k + 1]]

renumber(ths, a) ==
    [u \in DOMAIN ths |->
        IF ths[u].pc \in {"checked", "locked"} /\ ths[u].zapped.arr > a
        THEN [ths[u] EXCEPT !.zapped.arr = @ - 1] ELSE ths[u]]

\* Whether the write of rec to the BufferedSink s has to wait for the
\* destination: for the flush that makes room, or for the sync that
\* follows an entry above ErrorLevel.
coreWaits(s, rec) ==
    \/ Waits(s, "Write", Encode(rec, s.writes + 1))
    \/ s.health = "hanging" /\ rec.level > ErrorLevel

\* A call whose field array is one the Logger keeps and reuses: the array of
\* a call in progress on the same logger, when there is one.
CallSharedScratch(t, op, i, vals) ==
    /\ t \in DOMAIN threads
    /\ threads[t].pc = "idle"
    /\ i \in 1..Len(loggers)
    /\ LET f == getZapFields(heap, loggers[i], vals)
           ce == check(zapOf(loggers[i], op), sampler, LevelOf(op))
           busy == {u \in DOMAIN threads :
                       threads[u].pc \in {"checked", "locked"} /\ threads[u].l = i}
           a == IF busy = {} THEN Len(heap) + 1
                ELSE threads[CHOOSE u \in busy : TRUE].zapped.arr
       IN /\ heap' = IF busy = {} THEN Append(heap, f) ELSE [heap EXCEPT ![a] = f]
          /\ sampler' = ce.sampler
          /\ threads' = [threads EXCEPT ![t] =
                            [pc |-> "checked", op |-> op, l |-> i, vals |-> vals,
                             zapped |-> [arr |-> a, len |-> Len(f)], ce |-> ce]]
    /\ UNCHANGED <<loggers, derivedFrom, accumulated, world, sinks, last>>

\* Goroutine t calls l.op(msg, vals...): getZapFields fills a new array,
\* and the zap logger checks the entry.
Call(t, op, i, vals) ==
    /\ t \in DOMAIN threads
    /\ threads[t].pc = "idle"
    /\ i \in 1..Len(loggers)
    /\ LET f == getZapFields(heap, loggers[i], vals)
           ce == check(zapOf(loggers[i], op), sampler, LevelOf(op))
       IN /\ heap' = Append(heap, f)
          /\ sampler' = ce.sampler
          /\ threads' = [threads EXCEPT ![t] =
                            [pc |-> "checked", op |-> op, l |-> i, vals |-> vals,
                             zapped |-> [arr |-> Len(heap) + 1, len |-> Len(f)],
                             ce |-> ce]]
    /\ UNCHANGED <<loggers, derivedFrom, accumulated, world, sinks, last>>

\* The write of the checked entry takes the lock of its BufferedSink.
Enter(t) ==
    /\ t \in DOMAIN threads
    /\ threads[t].pc = "checked"
    /\ sinkOf(threads[t]) \in DOMAIN sinks
    /\ sinks[sinkOf(threads[t])].lock = 0
    /\ sinks' = [sinks EXCEPT ![sinkOf(threads[t])].lock = t]
    /\ threads' = [threads EXCEPT ![t].pc = "locked"]
    /\ UNCHANGED <<heap, loggers, derivedFrom, accumulated, sampler, world, last>>

\* The return of a call as it would be if the error of the write were
\* raised as a fault.
ReturnRaisesFailure(t) ==
    /\ t \in DOMAIN threads
    /\ threads[t].pc \in {"checked", "locked"}
    /\ LET th == threads[t]
           st == sinkOf(th)
           lvl == LevelOf(th.op)
           written == IF th.ce.isNil THEN <<>>
                      ELSE Write(th.ce, lvl, Elems(heap, th.zapped))
       IN /\ IF st \in DOMAIN sinks
             THEN th.pc = "locked" /\ ~coreWaits(sinks[st], written[1])
             ELSE th.pc = "checked"
          /\ sinks' = IF st \in DOMAIN sinks
                      THEN [Deliver(sinks, written) EXCEPT ![st].lock = 0]
                      ELSE sinks
          /\ last' = [op |-> th.op, l |-> th.l, vals |-> th.vals,
                      written |-> written,
                      failed |-> IF st \in DOMAIN sinks
                                 THEN coreWrite(sinks[st], written[1]).err ELSE "",
                      panicked |->
                          \/ th.op # "Fatal" /\ ~th.ce.isNil
                                /\ th.ce.should = "WriteThenPanic"
                          \/ st \in DOMAIN sinks
                                /\ coreWrite(sinks[st], written[1]).err # "",
                      exits |-> IF th.op = "Fatal" THEN 1 ELSE 0]
          /\ heap' = release(heap, th.zapped.arr)
          /\ threads' = renumber([threads EXCEPT ![t] = Idle], th.zapped.arr)
    /\ UNCHANGED <<loggers, derivedFrom, accumulated, sampler, world>>

\* The checked entry is written with the fields of the call's array, the
\* lock is released, and the call returns: to a fault for an entry that
\* panics, through exit.Exit() for Fatal.
Return(t) ==
    /\ t \in DOMAIN threads
    /\ threads[t].pc \in {"checked", "locked"}
    /\ LET th == threads[t]
           st == sinkOf(th)
           lvl == LevelOf(th.op)
           written == IF th.ce.isNil THEN <<>>
                      ELSE Write(th.ce, lvl, Elems(heap, th.zapped))
       IN /\ IF st \in DOMAIN sinks
             THEN th.pc = "locked" /\ ~coreWaits(sinks[st], written[1])
             ELSE th.pc = "checked"
          /\ sinks' = IF st \in DOMAIN sinks
                      THEN [Deliver(sinks, written) EXCEPT ![st].lock = 0]
                      ELSE sinks
          /\ last' = [op |-> th.op, l |-> th.l, vals |-> th.vals,
                      written |-> written,
                      failed |-> IF st \in DOMAIN sinks
                                 THEN coreWrite(sinks[st], written[1]).err ELSE "",
                      panicked |-> th.op # "Fatal" /\ ~th.ce.isNil
                                      /\ th.ce.should = "WriteThenPanic",
                      exits |-> IF th.op = "Fatal" THEN 1 ELSE 0]
          /\ heap' = release(heap, th.zapped.arr)
          /\ threads' = renumber([threads EXCEPT ![t] = Idle], th.zapped.arr)
    /\ UNCHANGED <<loggers, derivedFrom, accumulated, sampler, world>>

\* One logger shared by the goroutines; its fields are changed by With
\* only while no emission is in progress.
InitRace ==
    /\ heap = <<>>
    /\ loggers = <<NewLogger(EmitConfig, AwsWorld).logger>>
    /\ derivedFrom = <<0>>
    /\ accumulated = <<(<<>>)>>
    /\ sampler = NoCounts
    /\ world = AwsWorld
    /\ sinks = <<>>
    /\ threads = [t \in 1..MaxThreads |-> Idle]
    /\ last = NoOp

Quiet == \A t \in DOMAIN threads : threads[t].pc = "idle"

NextRace ==
    \/ Quiet /\ With(1, NilOpts, <<Int64("a", 0)>>)
    \/ \E t \in 1..MaxThreads :
          \/ \E op \in EmitOps : Call(t, op, 1, <<Int64("f", t)>>)
          \/ Return(t)

SpecRace == InitRace /\ [][NextRace]_vars

\* C14: in any interleaving of emission calls made by several goroutines on
\* the same Logger, no step of a call changes the logger's identity
\* attributes or accumulated fields, and the record a call writes holds the
\* identity fields, the accumulated fields and the call's own call-site
\* fields, nothing of a concurrent call.
C14_ConcurrentEmission ==
    [][threads' # threads =>
          /\ loggers' = loggers
          /\ \A i \in 1..Len(loggers) :
                Elems(heap', loggers'[i].fields) = Elems(heap, loggers[i].fields)
          /\ \A t \in DOMAIN threads :
                (threads[t].pc # "idle" /\ threads'[t].pc = "idle") =>
                    /\ last'.vals = threads[t].vals
                    /\ \A k \in 1..Len(last'.written) :
                          last'.written[k].fields
                             = Identity(loggers[last'.l])
                                  \o Supplied(accumulated[last'.l])
                                  \o Supplied(last'.vals)]_vars

\* A call has written its record, with accumulated fields, while a call of
\* another goroutine with other call-site fields is in progress.
C14_Witness ==
    /\ last.op \in EmitOps
    /\ last.written # <<>>
    /\ accumulated[1] # <<>>
    /\ \E t \in DOMAIN threads :
          /\ threads[t].pc = "checked"
          /\ threads[t].vals # last.vals
          /\ threads[t].zapped.arr = Len(heap)

-----------------------------------------------------------------------------
(* A BufferedSink at work: goroutines emitting, syncing and closing, the    *)
(* background flush task, and a destination that fails, hangs and recovers *)

Capacity == 3

\* The destination stops answering.
Hang(st) ==
    /\ st \in DOMAIN sinks
    /\ sinks[st].health = "ok"
    /\ sinks' = [sinks EXCEPT ![st].health = "hanging"]
    /\ UNCHANGED <<heap, loggers, derivedFrom, accumulated, sampler, world, threads, last>>

\* The background task as it would be if it woke whether or not
\* cancellation was signalled.
BgWakeIgnoresCancel(st) ==
    /\ st \in DOMAIN sinks
    /\ sinks[st].bg \in {"waiting", "stopped"}
    /\ sinks[st].lock = 0
    /\ sinks' = [sinks EXCEPT ![st].lock = -1, ![st].bg = "flushing"]
    /\ UNCHANGED <<heap, loggers, derivedFrom, accumulated, sampler, world, threads, last>>

\* A tick of the flush interval: the background task, not cancelled, wakes
\* and takes the lock (-1 is the task as holder).
BgWake(st) ==
    /\ st \in DOMAIN sinks
    /\ sinks[st].bg = "waiting"
    /\ ~sinks[st].cancelled
    /\ sinks[st].lock = 0
    /\ sinks' = [sinks EXCEPT ![st].lock = -1, ![st].bg = "flushing"]
    /\ UNCHANGED <<heap, loggers, derivedFrom, accumulated, sampler, world, threads, last>>

\* The background task as it would be if a caller were handed its error.
BgFlushReports(st) ==
    /\ st \in DOMAIN sinks
    /\ sinks[st].bg = "flushing"
    /\ ~Waits(sinks[st], "Sync", <<>>)
    /\ LET f == flush(sinks[st])
       IN /\ sinks' = [sinks EXCEPT ![st] =
                          [f.sink EXCEPT !.lock = 0,
                                         !.bg = IF @ = "flushing" /\ f.sink.cancelled
                                                THEN "stopped" ELSE "waiting",
                                         !.missed = @ \/ f.err # ""]]
          /\ last' = IF f.err = "" THEN last
                     ELSE [op |-> "Sync", l |-> 1, errs |-> <<"", f.err>>,
                           err |-> <<f.err>>]
    /\ UNCHANGED <<heap, loggers, derivedFrom, accumulated, sampler, world, threads>>

\* The background task performs the flush operation, drops its error,
\* releases the lock, and waits for the next tick or stops when cancelled.
BgFlush(st) ==
    /\ st \in DOMAIN sinks
    /\ sinks[st].bg = "flushing"
    /\ ~Waits(sinks[st], "Sync", <<>>)
    /\ LET f == flush(sinks[st])
       IN sinks' = [sinks EXCEPT ![st] =
                       [f.sink EXCEPT !.lock = 0,
                                      !.bg = IF f.sink.cancelled
                                             THEN "stopped" ELSE "waiting",
                                      !.missed = @ \/ f.err # ""]]
    /\ UNCHANGED <<heap, loggers, derivedFrom, accumulated, sampler, world, threads, last>>

\* Goroutine t calls l.Close(): Close of the first release handle begins,
\* signalling cancellation; a logger without handles returns nil at once.
CloseCall(t, i) ==
    /\ t \in DOMAIN threads
    /\ threads[t].pc = "idle"
    /\ i \in 1..Len(loggers)
    /\ \A st \in DOMAIN sinks : sinks[st].closeCalls < MaxCloses
    /\ LET closers == loggers[i].closers
       IN IF closers = <<>>
          THEN /\ last' = [op |-> "Close", l |-> i, calls |-> <<>>, err |-> <<>>]
               /\ UNCHANGED <<sinks, threads>>
          ELSE /\ sinks' = [sinks EXCEPT ![closers[1].stream] = cancel(@)]
               /\ threads' = [threads EXCEPT ![t] =
                                 [pc |-> "closing", l |-> i, step |-> 1,
                                  calls |-> <<>>]]
               /\ UNCHANGED last
    /\ UNCHANGED <<heap, loggers, derivedFrom, accumulated, sampler, world>>

\* The final Sync of the handle being closed, under the lock of its sink;
\* then Close of the next handle begins, or l.Close() returns.
CloseSync(t) ==
    /\ t \in DOMAIN threads
    /\ threads[t].pc = "closing"
    /\ LET th == threads[t]
           closers == loggers[th.l].closers
           st == closers[th.step].stream
           f == SinkSync(sinks[st])
           done == [sinks EXCEPT ![st] = [f.sink EXCEPT !.returned = @ + 1]]
           calls == Append(th.calls, f.err)
       IN /\ Free(st)
          /\ IF th.step < Len(closers)
             THEN /\ sinks' = [done EXCEPT ![closers[th.step + 1].stream] = cancel(@)]
                  /\ threads' = [threads EXCEPT ![t].step = @ + 1,
                                                 ![t].calls = calls]
                  /\ UNCHANGED last
             ELSE /\ sinks' = done
                  /\ threads' = [threads EXCEPT ![t] = Idle]
                  /\ last' = [op |-> "Close", l |-> th.l, calls |-> calls,
                              err |-> SelectSeq(calls, LAMBDA e : e # "")]
    /\ UNCHANGED <<heap, loggers, derivedFrom, accumulated, sampler, world>>

\* Development logging at Debug to one kinesis stream through a buffer of
\* Capacity bytes; reports go to standard output.
SinkConfig ==
    [ZeroConfig EXCEPT !.ServiceName = "svc", !.LogLevel = DebugLevel,
                       !.EnableDevLogging = "true", !.DisableKinesis = "false",
                       !.KinesisStreamMonitoring = "mon",
                       !.BufferSize = Capacity]

SinkWorld == [env |-> NoEnv, aws |-> AwsWorld.aws, stdout |-> ""]

\* The logger of SinkConfig, just built, and the goroutines T.
SinkStart(T) ==
    /\ heap = <<>>
    /\ loggers = <<NewLogger(SinkConfig, SinkWorld).logger>>
    /\ derivedFrom = <<0>>
    /\ accumulated = <<(<<>>)>>
    /\ sampler = NoCounts
    /\ world = SinkWorld
    /\ sinks = StartSinks(NewLogger(SinkConfig, SinkWorld).started)
    /\ threads = [t \in T |-> Idle]
    /\ last = NoOp

\* The goroutines that emit and close in the specification of the sink.
SinkThreads == {1, 2}

InitSink == SinkStart(SinkThreads)

\* The call-site fields of the goroutines: records of one to three bytes.
SinkArgs == {<<>>, <<Int64("f", 1)>>, <<Int64("f", 1), Int64("g", 2)>>}

NextSink ==
    \/ \E t \in SinkThreads :
          \/ Quota /\ \E vals \in SinkArgs : Call(t, "Info", 1, vals)
          \/ Enter(t)
          \/ Return(t)
          \/ sinks["mon"].closeCalls = 0 /\ CloseCall(t, 1)
          \/ CloseSync(t)
    \/ Sync(1)
    \/ BgWake("mon")
    \/ BgFlush("mon")
    \/ Degrade("mon")
    \/ Hang("mon")
    \/ Recover("mon")

SpecSink == InitSink /\ [][NextSink]_vars

-----------------------------------------------------------------------------
(* Emission over a failing destination: every method, in development and   *)
(* in production, both pipelines buffered                                  *)

FailConfigs ==
    {[ZeroConfig EXCEPT !.ServiceName = "svc", !.LogLevel = DebugLevel,
                        !.EnableDevLogging = dev, !.DisableKinesis = "false",
                        !.KinesisStreamMonitoring = "mon",
                        !.KinesisStreamReporting = "rep",
                        !.BufferSize = Capacity] : dev \in {"true", "false"}}

InitFail ==
    /\ heap = <<>>
    /\ \E c \in FailConfigs :
          /\ loggers = <<NewLogger(c, SinkWorld).logger>>
          /\ sinks = StartSinks(NewLogger(c, SinkWorld).started)
    /\ derivedFrom = <<0>>
    /\ accumulated = <<(<<>>)>>
    /\ sampler = NoCounts
    /\ world = SinkWorld
    /\ threads = [t \in {1} |-> Idle]
    /\ last = NoOp

\* The call-site fields of the calls: records of one and of three bytes.
FailArgs == {<<>>, <<Int64("f", 1), Int64("g", 2)>>}

NextFail ==
    \/ Quota /\ \E op \in EmitOps, vals \in FailArgs : Call(1, op, 1, vals)
    \/ Enter(1)
    \/ Return(1)
    \/ \E st \in {"mon", "rep"} : Degrade(st) \/ Recover(st)

SpecFail == InitFail /\ [][NextFail]_vars

Quiet5 == {"Debug", "Info", "Warn", "Error", "Report"}

\* C15 as stated: Debug, Info, Warn, Error and Report raise no fault and do
\* not terminate the process, also when the write to the destination
\* fails; the only control-flow effects of emission are the fault of Panic
\* and the exit-hook call of Fatal.
C15_OnlyPanicAndFatal ==
    last.op \in EmitOps =>
        /\ last.op \in Quiet5 => ~last.panicked /\ last.exits = 0
        /\ last.panicked => last.op = "Panic"
        /\ last.exits > 0 => last.op = "Fatal"

\* C15, amended: Debug, Info, Warn, Error and Report raise no fault and do
\* not terminate the process, also when the write to the destination
\* fails; the only control-flow effects of emission are the fault of
\* Panic, the fault of DPanic on a logger in development mode, and the
\* exit-hook call of Fatal.
C15_EmissionNeverFails ==
    last.op \in EmitOps =>
        /\ last.op \in Quiet5 => ~last.panicked /\ last.exits = 0
        /\ last.panicked =>
              \/ last.op = "Panic"
              \/ last.op = "DPanic" /\ loggers[last.l].monitorLogger.development
        /\ last.exits > 0 => last.op = "Fatal"

\* A call of one of the five methods whose write to the destination failed.
C15_Witness ==
    /\ last.op \in Quiet5
    /\ last.written # <<>>
    /\ last.failed # ""
    /\ ~last.panicked
    /\ last.exits = 0

-----------------------------------------------------------------------------
(* Emission over a destination that hangs: goroutines emitting and the      *)
(* background flush task.  The lock is handed to every waiter in turn, and  *)
(* whoever holds it proceeds if the destination answers again and again.   *)

NextHang ==
    \/ \E t \in 1..MaxThreads :
          \/ Quota /\ \E vals \in SinkArgs : Call(t, "Info", 1, vals)
          \/ Enter(t)
          \/ Return(t)
    \/ BgWake("mon")
    \/ BgFlush("mon")
    \/ Hang("mon")
    \/ Recover("mon")

InitHang == SinkStart(1..MaxThreads)

SpecHang ==
    /\ InitHang
    /\ [][NextHang]_vars
    /\ \A t \in 1..MaxThreads : SF_vars(Enter(t)) /\ SF_vars(Return(t))
    /\ SF_vars(BgFlush("mon"))

\* C16: with remote delivery enabled, every emission call eventually
\* returns, also when the destination hangs, in every interleaving with the
\* background flush task and with writes that fill the buffer.
C16_EmissionReturns ==
    \A t \in 1..MaxThreads : (threads[t].pc # "idle") ~> (threads[t].pc = "idle")

-----------------------------------------------------------------------------
(* Properties of the BufferedSink behind the monitor pipeline *)

Mon == sinks["mon"]

\* The places the bytes of Write k are in: batches delivered, and the buffer.
PlacesOf(s, k) ==
    {b \in 1..Len(s.delivered) : \E j \in 1..Len(s.delivered[b]) : s.delivered[b][j] = k}
        \cup (IF \E j \in 1..Len(s.buf) : s.buf[j] = k THEN {0} ELSE {})

\* C17: a Write of N bytes to a buffer that is not empty and has less than N
\* bytes of room makes exactly one flush, of the content buffered before,
\* and then buffers its bytes; any other Write buffers its bytes without a
\* flush; the bytes of one Write are never in two batches, nor partly
\* delivered and partly buffered.
C17_BufferBoundary ==
    [][/\ \A k \in 1..Mon'.writes : Cardinality(PlacesOf(Mon', k)) <= 1
       /\ (Mon'.writes = Mon.writes + 1 /\ Mon.health = "ok") =>
             LET bs == SubSeq(Mon'.passed, Len(Mon.passed) + 1, Len(Mon'.passed))
             IN IF Mon.buf # <<>> /\ Len(bs) > Mon.size - Len(Mon.buf)
                THEN /\ Mon'.delivered = Append(Mon.delivered, Mon.buf)
                     /\ Mon'.buf = bs
                     /\ Mon'.spills = Mon.spills + 1
                ELSE /\ Mon'.delivered = Mon.delivered
                     /\ Mon'.buf = Mon.buf \o bs
                     /\ Mon'.spills = Mon.spills]_vars

\* A Write has flushed the content buffered before it and buffered its own.
C17_Witness ==
    /\ Mon.spills = 1
    /\ Mon.flushes = 1
    /\ Mon.writes = 2
    /\ Mon.delivered # <<>>
    /\ Mon.buf # <<>>
    /\ Len(Mon.delivered[1]) + Len(Mon.buf) > Mon.size

\* The concatenation of the batches.
RECURSIVE Flatten(_)
Flatten(batches) ==
    IF batches = <<>> THEN <<>> ELSE Head(batches) \o Flatten(Tail(batches))

\* C18: when the destination never refused a request and every Write was
\* done before the one Close was called, then once Close has returned the
\* batches the destination received, concatenated, are the bytes passed to
\* Write, in Write order, none lost and none twice, whatever explicit Syncs
\* and background flushes came in between.
C18_DrainComplete ==
    (Mon.returned >= 1 /\ ~Mon.refused /\ ~Mon.late) =>
        /\ Flatten(Mon.delivered) = Mon.passed
        /\ Mon.buf = <<>>

\* Close has returned after two Writes that reached the destination in two
\* batches, the first of them flushed before Close was called.
C18_Witness ==
    /\ Mon.returned = 1
    /\ ~Mon.refused
    /\ ~Mon.late
    /\ Mon.writes = 2
    /\ Len(Mon.delivered) = 2
    /\ Flatten(Mon.delivered) = Mon.passed

C20_FlushErrorAsymmetry ==
    [][LET refuses == Mon.health = "failing" /\ Mon.buf # <<>>
       IN /\ (Mon.bg = "flushing" /\ Mon'.bg # "flushing") =>
                 last' = last /\ threads' = threads
          /\ (last' # last /\ last'.op = "Sync") =>
                 /\ last'.errs[2] # "" <=> refuses
                 /\ last'.err = SelectSeq(last'.errs, LAMBDA e : e # "")
          /\ (last' # last /\ last'.op = "Close") =>
                 /\ last'.calls[1] # "" <=> refuses
                 /\ last'.err = SelectSeq(last'.calls, LAMBDA e : e # "")
          /\ (Mon'.writes = Mon.writes + 1) =>
                 (last'.failed # "" <=>
                     refuses /\ Len(Mon'.passed) - Len(Mon.passed)
                                    > Mon.size - Len(Mon.buf))]_vars

\* The background task has met an error, which no call returned, and an
\* explicit Sync has returned the error it met itself.
C20_Witness ==
    /\ Mon.missed
    /\ last.op = "Sync"
    /\ last.errs[2] # ""
    /\ last.err = <<last.errs[2]>>
    /\ Mon.buf # <<>>

-----------------------------------------------------------------------------
(* Pipelines: where Report and the leveled methods write, and what gates    *)
(* Report, in every configuration                                           *)

\* InitLevel, the world keeping the Config the logger was built from.
InitPipes ==
    /\ heap = <<>>
    /\ \E c \in LevelConfigs :
          /\ loggers = <<NewLogger(c, AwsWorld).logger>>
          /\ world = [env |-> NoEnv, aws |-> AwsWorld.aws, config |-> c]
    /\ derivedFrom = <<0>>
    /\ accumulated = <<(<<>>)>>
    /\ sampler = NoCounts
    /\ sinks = <<>>
    /\ threads = <<>>
    /\ last = NoOp

SpecPipes == InitPipes /\ [][NextLevel]_vars

\* The logger NewLogger builds from the same Config with another LogLevel.
Sibling(lv) == NewLogger([world.config EXCEPT !.LogLevel = lv], AwsWorld).logger

\* C21: a Report call writes its record, at Info severity, to the report
\* pipeline's destination only, which is not the monitor pipeline's; a
\* Debug..Fatal call writes to the monitor pipeline's destination only; and
\* whether Report writes is the same whatever minimum level the monitor
\* pipeline was configured with, in every configuration.
C21_PipelineIndependence ==
    [][(last'.op \in EmitOps /\ ~Tick) =>
          LET l == loggers[1]
              w == last'.written
          IN /\ last'.op = "Report" =>
                  /\ \A k \in 1..Len(w) :
                        /\ w[k].level = InfoLevel
                        /\ w[k].sink = l.reportingLogger.core.sink
                  /\ l.reportingLogger.core.sink # l.monitorLogger.core.sink
                  /\ \A lv \in Levels \ {InfoLevel} :
                        Len(log(Sibling(lv).reportingLogger, sampler,
                                InfoLevel, <<>>).written) = Len(w)
             /\ last'.op \in MonitorOps =>
                  \A k \in 1..Len(w) : w[k].sink = l.monitorLogger.core.sink]_vars

-----------------------------------------------------------------------------
(* Configuration precedence: mergeAndPopulateConfig over supplied values    *)
(* and environments                                                        *)

\* Every setting is set in the environment or not; LOG_LEVEL may not parse.
InitMerge ==
    /\ heap = <<>>
    /\ loggers = <<>>
    /\ derivedFrom = <<>>
    /\ accumulated = <<>>
    /\ sampler = NoCounts
    /\ \E e \in [LOG_NAME : {"", "a"}, SERVICE_NAME : {"", "b"},
                 LOG_LEVEL : {"", "DeBuG", "bogus"},
                 LOG_ENABLE_DEV : {"", "TRUE"},
                 LOG_STREAM_MONITORING : {"", "mon"},
                 LOG_STREAM_REPORTING : {"", "rep"},
                 LOG_DISABLE_KINESIS : {"", "FALSE"},
                 LOG_FLUSH_INTERVAL : {""}, LOG_BUFFER_SIZE : {""}] :
          world = [env |-> e, aws |-> NoWorld.aws]
    /\ sinks = <<>>
    /\ threads = <<>>
    /\ last = NoOp

\* mergeAndPopulateConfig(&Config{...}): config is the struct the caller's
\* literal makes; levelGiven says whether the literal names LogLevel (a
\* field it does not name is 0).
Merge(config, levelGiven) ==
    /\ levelGiven \/ config.LogLevel = 0
    /\ last' = [op |-> "mergeAndPopulateConfig", config |-> config,
                levelGiven |-> levelGiven,
                result |-> mergeAndPopulateConfig(config, world.env)]
    /\ UNCHANGED <<heap, loggers, derivedFrom, accumulated, sampler, world,
                   sinks, threads>>

NextMerge ==
    /\ last = NoOp
    /\ \E levelGiven \in BOOLEAN,
          config \in {[ZeroConfig EXCEPT !.LoggerName = ln, !.ServiceName = sn,
                           !.LogLevel = lv, !.EnableDevLogging = dev,
                           !.KinesisStreamMonitoring = mon,
                           !.KinesisStreamReporting = rep,
                           !.DisableKinesis = kin] :
                        ln \in {"", "x"}, sn \in {"", "svc"},
                        lv \in {InfoLevel, WarnLevel}, dev \in {"nil", "false"},
                        mon \in {"", "m2"}, rep \in {"", "r2"},
                        kin \in {"nil", "true"}} :
          Merge(config, levelGiven)

SpecMerge == InitMerge /\ [][NextMerge]_vars

\* C22: when the merge succeeds, every resolved setting is the supplied value
\* if one was supplied, else the environment's value if set, else the
\* default; a supplied minimum level of Info included.
C22_Precedence ==
    (last.op = "mergeAndPopulateConfig" /\ last.result.err = "") =>
        LET c == last.config
            e == world.env
            d == newDefaultConfig
            r == last.result.config
        IN /\ r.LoggerName = (IF c.LoggerName # "" THEN c.LoggerName
                              ELSE IF e.LOG_NAME # "" THEN e.LOG_NAME
                              ELSE d.LoggerName)
           /\ r.ServiceName = (IF c.ServiceName # "" THEN c.ServiceName
                               ELSE IF e.SERVICE_NAME # "" THEN e.SERVICE_NAME
                               ELSE d.ServiceName)
           /\ r.LogLevel = (IF last.levelGiven THEN c.LogLevel
                            ELSE IF e.LOG_LEVEL # "" THEN LevelSet(e.LOG_LEVEL).level
                            ELSE d.LogLevel)
           /\ r.EnableDevLogging =
                  (IF c.EnableDevLogging # "nil" THEN c.EnableDevLogging
                   ELSE IF e.LOG_ENABLE_DEV # "" THEN ParseBool(e.LOG_ENABLE_DEV).v
                   ELSE d.EnableDevLogging)
           /\ r.KinesisStreamMonitoring =
                  (IF c.KinesisStreamMonitoring # "" THEN c.KinesisStreamMonitoring
                   ELSE IF e.LOG_STREAM_MONITORING # "" THEN e.LOG_STREAM_MONITORING
                   ELSE d.KinesisStreamMonitoring)
           /\ r.KinesisStreamReporting =
                  (IF c.KinesisStreamReporting # "" THEN c.KinesisStreamReporting
                   ELSE IF e.LOG_STREAM_REPORTING # "" THEN e.LOG_STREAM_REPORTING
                   ELSE d.KinesisStreamReporting)
           /\ r.DisableKinesis =
                  (IF c.DisableKinesis # "nil" THEN c.DisableKinesis
                   ELSE IF e.LOG_DISABLE_KINESIS # "" THEN ParseBool(e.LOG_DISABLE_KINESIS).v
                   ELSE d.DisableKinesis)

-----------------------------------------------------------------------------
(* Level text: MarshalText and UnmarshalText.  A text is a sequence of      *)
(* one-character strings, so that folding the case is computed.            *)

LowerBytes == <<"a", "b", "c", "d", "e", "f", "g", "i", "l", "n", "o", "p", "r", "t", "u", "w">>
UpperBytes == <<"A", "B", "C", "D", "E", "F", "G", "I", "L", "N", "O", "P", "R", "T", "U", "W">>

\* bytes.ToLower / strings.ToUpper, byte by byte.
bytesToLower(text) ==
    [k \in 1..Len(text) |->
        IF \E j \in 1..Len(UpperBytes) : UpperBytes[j] = text[k]
        THEN LowerBytes[CHOOSE j \in 1..Len(UpperBytes) : UpperBytes[j] = text[k]]
        ELSE text[k]]

stringsToUpper(text) ==
    [k \in 1..Len(text) |->
        IF \E j \in 1..Len(LowerBytes) : LowerBytes[j] = text[k]
        THEN UpperBytes[CHOOSE j \in 1..Len(LowerBytes) : LowerBytes[j] = text[k]]
        ELSE text[k]]

\* Level.String()
LevelString(l) ==
    CASE l = DebugLevel -> <<"d", "e", "b", "u", "g">>
      [] l = InfoLevel -> <<"i", "n", "f", "o">>
      [] l = WarnLevel -> <<"w", "a", "r", "n">>
      [] l = ErrorLevel -> <<"e", "r", "r", "o", "r">>
      [] l = DPanicLevel -> <<"d", "p", "a", "n", "i", "c">>
      [] l = PanicLevel -> <<"p", "a", "n", "i", "c">>
      [] l = FatalLevel -> <<"f", "a", "t", "a", "l">>

\* Level.MarshalText(): the bytes of String().
MarshalText(l) == [text |-> LevelString(l), err |-> ""]

\* unmarshalText: the switch over the lower-case and the upper-case name of
\* each level, the empty text being Info.  [ok, level], the receiver l kept
\* when no case matches.
unmarshalText(l, text) ==
    IF text = <<>> THEN [ok |-> TRUE, level |-> InfoLevel]
    ELSE IF \E k \in DebugLevel..FatalLevel :
                text \in {LevelString(k), stringsToUpper(LevelString(k))}
    THEN [ok |-> TRUE,
          level |-> CHOOSE k \in DebugLevel..FatalLevel :
                       text \in {LevelString(k), stringsToUpper(LevelString(k))}]
    ELSE [ok |-> FALSE, level |-> l]

\* UnmarshalText as it would be without the second attempt on the folded text.
UnmarshalTextAsWritten(l, text) ==
    LET first == unmarshalText(l, text)
    IN IF first.ok THEN [level |-> first.level, err |-> ""]
       ELSE [level |-> l, err |-> "unrecognized level"]

\* l.UnmarshalText(text):
\* if !l.unmarshalText(text) && !l.unmarshalText(bytes.ToLower(text)) { error }
UnmarshalText(l, text) ==
    LET first == unmarshalText(l, text)
        second == unmarshalText(l, bytesToLower(text))
    IN IF first.ok THEN [level |-> first.level, err |-> ""]
       ELSE IF second.ok THEN [level |-> second.level, err |-> ""]
       ELSE [level |-> l, err |-> "unrecognized level"]

\* Every casing of a text: each byte as it is or in upper case.
Casings(text) ==
    {t \in [1..Len(text) -> {text[k] : k \in 1..Len(text)}
                            \cup {stringsToUpper(text)[k] : k \in 1..Len(text)}] :
        \A k \in 1..Len(text) : t[k] \in {text[k], stringsToUpper(text)[k]}}

\* Texts that are no casing of a level's name.
OtherTexts ==
    {<<"f", "o", "o">>, <<"n", "o", "p", "e">>, <<"d", "e", "b", "u">>,
     <<"i", "n", "f", "o", " ">>, <<"w", "a", "r", "n", "i", "n", "g">>,
     <<"0">>, <<"D", "E", "B", "U", "G", "G">>}

\* The text to parse and the level to render are drawn at the start.
InitText ==
    /\ heap = <<>>
    /\ loggers = <<>>
    /\ derivedFrom = <<>>
    /\ accumulated = <<>>
    /\ sampler = NoCounts
    /\ \E text \in UNION {Casings(LevelString(k)) : k \in DebugLevel..FatalLevel}
                      \cup {<<>>} \cup OtherTexts,
          level \in DebugLevel..FatalLevel :
          world = [env |-> NoEnv, aws |-> NoWorld.aws, text |-> text, level |-> level]
    /\ sinks = <<>>
    /\ threads = <<>>
    /\ last = NoOp

\* var l Level; err := l.UnmarshalText(text)
Unmarshal ==
    /\ last' = [op |-> "UnmarshalText", text |-> world.text,
                result |-> UnmarshalText(InfoLevel, world.text)]
    /\ UNCHANGED <<heap, loggers, derivedFrom, accumulated, sampler, world,
                   sinks, threads>>

\* marshaled, _ := level.MarshalText(); var l Level; l.UnmarshalText(marshaled)
MarshalThenUnmarshal ==
    /\ LET m == MarshalText(world.level)
       IN last' = [op |-> "MarshalText", level |-> world.level, text |-> m.text,
                   err |-> m.err, result |-> UnmarshalText(InfoLevel, m.text)]
    /\ UNCHANGED <<heap, loggers, derivedFrom, accumulated, sampler, world,
                   sinks, threads>>

NextText == Unmarshal \/ MarshalThenUnmarshal

SpecText == InitText /\ [][NextText]_vars

\* C23: UnmarshalText maps every casing of the seven names to the matching
\* level and the empty text to Info, and fails with "unrecognized level" on
\* any other text; MarshalText of a level followed by UnmarshalText gives the
\* level back.
C23_LevelText ==
    /\ last.op = "UnmarshalText" =>
          /\ \A k \in DebugLevel..FatalLevel :
                last.text \in Casings(LevelString(k)) =>
                    last.result = [level |-> k, err |-> ""]
          /\ last.text = <<>> => last.result = [level |-> InfoLevel, err |-> ""]
          /\ (last.text # <<>> /\ \A k \in DebugLevel..FatalLevel :
                                     last.text \notin Casings(LevelString(k)))
                => last.result.err = "unrecognized level"
    /\ last.op = "MarshalText" =>
          /\ last.err = ""
          /\ last.result = [level |-> last.level, err |-> ""]

\* A text in mixed case, which only the folded second attempt matches, was
\* parsed to its level.
C23_Witness ==
    /\ last.op = "UnmarshalText"
    /\ last.text = <<"D", "p", "A", "n", "I", "c">>
    /\ last.result = [level |-> DPanicLevel, err |-> ""]

-----------------------------------------------------------------------------
(* ExitHook: package exit.  Its state x is the package variable real (0 is  *)
(* os.Exit(1), s is the exit method of the s-th StubbedExit), the stubs     *)
(* made so far, and whether the process has terminated.                     *)

MaxStubs == 3

\* s := &StubbedExit{prev: real}; real = s.exit
Stub(x) ==
    [x EXCEPT !.stubs = Append(x.stubs, [Exited |-> FALSE, prev |-> x.real]),
              !.real = Len(x.stubs) + 1]

\* Unstub as it would be if it restored os.Exit(1) whatever was installed before.
UnstubToOriginal(x, s) == [x EXCEPT !.real = 0]

\* se.Unstub(): real = se.prev
Unstub(x, s) == [x EXCEPT !.real = x.stubs[s].prev]

\* Exit(): real(), which is os.Exit(1) or se.exit (se.Exited = true).
Exit(x) ==
    IF x.real = 0 THEN [x EXCEPT !.terminated = TRUE]
    ELSE [x EXCEPT !.stubs[x.real].Exited = TRUE]

\* WithStub(f): s := Stub(); defer s.Unstub(); f(); return s
WithStub(x, f) ==
    LET x1 == Stub(x)
        s == x1.real
        x2 == IF f = "Exit" THEN Exit(x1) ELSE x1
    IN [exit |-> Unstub(x2, s), s |-> s]

\* Beside the package's state the world keeps what a test knows of its own
\* calls: open, the stubs installed and not yet unstubbed, innermost last;
\* nested, whether every Unstub so far was of the innermost open stub; hit,
\* the stubs that were installed as real when Exit() was called.
ExitWorld ==
    [env |-> NoEnv, aws |-> NoWorld.aws,
     exit |-> [real |-> 0, stubs |-> <<>>, terminated |-> FALSE],
     open |-> <<>>, nested |-> TRUE, hit |-> {}]

InitExit ==
    /\ heap = <<>>
    /\ loggers = <<>>
    /\ derivedFrom = <<>>
    /\ accumulated = <<>>
    /\ sampler = NoCounts
    /\ world = ExitWorld
    /\ sinks = <<>>
    /\ threads = <<>>
    /\ last = NoOp

CallStub ==
    /\ Len(world.exit.stubs) < MaxStubs
    /\ world' = [world EXCEPT !.exit = Stub(world.exit),
                              !.open = Append(world.open, Len(world.exit.stubs) + 1)]
    /\ last' = [op |-> "Stub", s |-> Len(world.exit.stubs) + 1]
    /\ UNCHANGED <<heap, loggers, derivedFrom, accumulated, sampler, sinks, threads>>

CallUnstub(s) ==
    /\ s \in 1..Len(world.exit.stubs)
    /\ LET n == Len(world.open)
           proper == n > 0 /\ world.open[n] = s
       IN world' = [world EXCEPT !.exit = Unstub(world.exit, s),
                                 !.open = IF proper THEN SubSeq(world.open, 1, n - 1)
                                          ELSE world.open,
                                 !.nested = world.nested /\ proper]
    /\ last' = [op |-> "Unstub", s |-> s]
    /\ UNCHANGED <<heap, loggers, derivedFrom, accumulated, sampler, sinks, threads>>

CallExit ==
    /\ world' = [world EXCEPT !.exit = Exit(world.exit),
                              !.hit = IF world.exit.real = 0 THEN world.hit
                                      ELSE world.hit \cup {world.exit.real}]
    /\ last' = [op |-> "Exit", s |-> world.exit.real]
    /\ UNCHANGED <<heap, loggers, derivedFrom, accumulated, sampler, sinks, threads>>

CallWithStub(f) ==
    /\ Len(world.exit.stubs) < MaxStubs
    /\ LET r == WithStub(world.exit, f)
       IN /\ world' = [world EXCEPT !.exit = r.exit,
                                    !.hit = IF f = "Exit" THEN world.hit \cup {r.s}
                                            ELSE world.hit]
          /\ last' = [op |-> "WithStub", s |-> r.s, f |-> f]
    /\ UNCHANGED <<heap, loggers, derivedFrom, accumulated, sampler, sinks, threads>>

\* A terminated process takes no step.
NextExit ==
    \/ ~world.exit.terminated /\ CallStub
    \/ \E s \in 1..MaxStubs : ~world.exit.terminated /\ CallUnstub(s)
    \/ ~world.exit.terminated /\ CallExit
    \/ \E f \in {"Exit", "noop"} : ~world.exit.terminated /\ CallWithStub(f)

SpecExit == InitExit /\ [][NextExit]_vars

\* C24: while a stub is installed Exit() does not terminate the process and
\* sets Exited on the innermost installed stub and on no other; a stub that
\* Exit() never reached has Exited false; WithStub leaves the terminate
\* function as it was before, and its stub says whether f called Exit; while
\* the Stub/Unstub calls are properly nested, Unstub leaves the terminate
\* function that was installed before that stub, which is the process exit
\* after the outermost Unstub.
C24_ExitStub ==
    [][LET x == world.exit
           y == world'.exit
           n == Len(world'.open)
       IN /\ (last'.op = "Exit" /\ x.real # 0) =>
                /\ ~y.terminated
                /\ y = [x EXCEPT !.stubs[x.real].Exited = TRUE]
                /\ (world.nested /\ world.open # <<>>) =>
                       x.real = world.open[Len(world.open)]
          /\ \A s \in 1..Len(y.stubs) : y.stubs[s].Exited => s \in world'.hit
          /\ last'.op = "WithStub" =>
                /\ y.real = x.real
                /\ ~y.terminated
                /\ y.stubs[last'.s].Exited = (last'.f = "Exit")
                /\ \A s \in 1..Len(x.stubs) : y.stubs[s] = x.stubs[s]
          /\ (last'.op = "Unstub" /\ world'.nested) =>
                y.real = IF n = 0 THEN 0 ELSE world'.open[n]
          /\ (world'.nested /\ n = 0) => y.real = 0]_vars

\* Two stubs were installed one inside the other, Exit() was called and
\* reached the inner one alone, and both were unstubbed in order: the
\* terminate function is the process exit again.
C24_Witness ==
    /\ last.op = "Unstub"
    /\ world.nested
    /\ world.open = <<>>
    /\ Len(world.exit.stubs) >= 2
    /\ world.exit.stubs[2].prev = 1
    /\ world.exit.stubs[2].Exited
    /\ ~world.exit.stubs[1].Exited
    /\ world.exit.real = 0

-----------------------------------------------------------------------------
(* Fields made from the caller's slices.  The heap holds the caller's       *)
(* arrays; a value of any element type is written as its text.             *)

MaxArrays == 2
MaxFields == 2

SeqKinds == {"strings", "int64s", "float64s", "bools"}

ValuesOf(kind) ==
    CASE kind = "strings" -> {"x", "y"}
      [] kind = "int64s" -> {"1", "2"}
      [] kind = "float64s" -> {"1.5", "2.5"}
      [] kind = "bools" -> {"true", "false"}

\* NewStringField(k, v): zap.String(k, v) holds the string itself.
NewStringField(k, v) ==
    [key |-> k, type |-> "String", str |-> v, val |-> NilSlice]

\* NewStringsField / NewInt64sField / NewFloat64sField / NewBoolsField (k, vs):
\* zap.Strings(k, vs) is Array(k, stringArray(vs)), a conversion of the
\* slice: the Field holds the slice header, with the caller's array.
NewSeqField(kind, k, vs) ==
    [key |-> k, type |-> kind, str |-> "", val |-> vs]

\* What the encoder reads when the Field is added to a record:
\* the string, or the elements of the slice at that moment.
AddTo(h, f) == IF f.type = "String" THEN <<f.str>> ELSE Elems(h, f.val)

\* made are the Fields the factories returned and first what each emitted
\* when it was returned; kinds is the element type of each array.
InitField ==
    /\ heap = <<>>
    /\ loggers = <<>>
    /\ derivedFrom = <<>>
    /\ accumulated = <<>>
    /\ sampler = NoCounts
    /\ world = [env |-> NoEnv, aws |-> NoWorld.aws,
                made |-> <<>>, first |-> <<>>, kinds |-> <<>>]
    /\ sinks = <<>>
    /\ threads = <<>>
    /\ last = NoOp

\* vs := []T{...}
MakeSlice(kind, elems) ==
    /\ Len(heap) < MaxArrays
    /\ heap' = Append(heap, elems)
    /\ world' = [world EXCEPT !.kinds = Append(world.kinds, kind)]
    /\ last' = [op |-> "make", a |-> Len(heap) + 1]
    /\ UNCHANGED <<loggers, derivedFrom, accumulated, sampler, sinks, threads>>

\* f := NewStringField(k, v)
CallNewStringField(k, v) ==
    /\ Len(world.made) < MaxFields
    /\ LET f == NewStringField(k, v)
       IN world' = [world EXCEPT !.made = Append(world.made, f),
                                 !.first = Append(world.first, AddTo(heap, f))]
    /\ last' = [op |-> "NewStringField", a |-> 0]
    /\ UNCHANGED <<heap, loggers, derivedFrom, accumulated, sampler, sinks, threads>>

\* f := NewStringsField(k, vs), and the three like it, vs being the array a.
CallNewSeqField(k, a) ==
    /\ Len(world.made) < MaxFields
    /\ a \in 1..Len(heap)
    /\ LET f == NewSeqField(world.kinds[a], k, [arr |-> a, len |-> Len(heap[a])])
       IN world' = [world EXCEPT !.made = Append(world.made, f),
                                 !.first = Append(world.first, AddTo(heap, f))]
    /\ last' = [op |-> "NewSeqField", a |-> a]
    /\ UNCHANGED <<heap, loggers, derivedFrom, accumulated, sampler, sinks, threads>>

\* vs[j] = v, by the caller, at any time.
Store(a, j, v) ==
    /\ a \in 1..Len(heap)
    /\ j \in 1..Len(heap[a])
    /\ v \in ValuesOf(world.kinds[a])
    /\ heap' = [heap EXCEPT ![a][j] = v]
    /\ last' = [op |-> "store", a |-> a]
    /\ UNCHANGED <<loggers, derivedFrom, accumulated, sampler, world, sinks, threads>>

NextField ==
    \/ \E kind \in SeqKinds :
          \E elems \in {<<v>> : v \in ValuesOf(kind)}
                       \cup {<<v, w>> : v \in ValuesOf(kind), w \in ValuesOf(kind)} :
              MakeSlice(kind, elems)
    \/ \E v \in {"x", "y"} : CallNewStringField("a", v)
    \/ \E a \in 1..MaxArrays : CallNewSeqField("b", a)
    \/ \E a \in 1..MaxArrays, j \in 1..2, v \in UNION {ValuesOf(kind) : kind \in SeqKinds} :
          Store(a, j, v)

SpecField == InitField /\ [][NextField]_vars

\* C25: a Field a factory has returned emits the same key and value ever
\* after, whatever the caller later stores in the slice it passed in.
C25_FieldImmutable ==
    \A i \in 1..Len(world.made) : AddTo(heap, world.made[i]) = world.first[i]

-----------------------------------------------------------------------------
(* Logger.Fatal step by step, with the exit hook real or stubbed.  The one  *)
(* caller is threads[1]; order lists what the call in progress (or the last *)
(* call) has done: "write" for a record handed to a core, "terminate" for   *)
(* the process ended by the write, "panic" for a fault raised by the write, *)
(* "exit" for exit.Exit().                                                  *)

MaxFatal == 2

InitFatal ==
    /\ heap = <<>>
    /\ \E c \in LevelConfigs : loggers = <<NewLogger(c, AwsWorld).logger>>
    /\ derivedFrom = <<0>>
    /\ accumulated = <<(<<>>)>>
    /\ sampler = NoCounts
    /\ world = [ExitWorld EXCEPT !.aws = AwsWorld.aws]
    /\ sinks = <<>>
    /\ threads = <<[pc |-> "idle", calls |-> 0, order |-> <<>>]>>
    /\ last = NoOp

\* f := l.getZapFields(vals...); ce := l.monitorLogger.Check(FatalLevel, msg)
FatalCheck(i, vals) ==
    /\ ~world.exit.terminated
    /\ threads[1].pc = "idle"
    /\ threads[1].calls < MaxFatal
    /\ i \in 1..Len(loggers)
    /\ LET ce == check(loggers[i].monitorLogger, sampler, FatalLevel)
       IN /\ sampler' = ce.sampler
          /\ threads' = <<[pc |-> IF ce.isNil THEN "written" ELSE "checked",
                           calls |-> threads[1].calls + 1, order |-> <<>>,
                           l |-> i, vals |-> vals, ce |-> ce,
                           f |-> getZapFields(heap, loggers[i], vals)]>>
    /\ UNCHANGED <<heap, loggers, derivedFrom, accumulated, world, sinks, last>>

\* Fatal as it would be without ce.Should(ce.Entry, zapcore.WriteThenNoop).
FatalShouldKeepsAction ==
    /\ threads[1].pc = "checked"
    /\ threads' = [threads EXCEPT ![1].pc = "armed"]
    /\ UNCHANGED <<heap, loggers, derivedFrom, accumulated, sampler, world, sinks, last>>

\* ce.Should(ce.Entry, zapcore.WriteThenNoop)
FatalShould ==
    /\ threads[1].pc = "checked"
    /\ threads' = [threads EXCEPT ![1].pc = "armed",
                                  ![1].ce.should = "WriteThenNoop"]
    /\ UNCHANGED <<heap, loggers, derivedFrom, accumulated, sampler, world, sinks, last>>

\* ce.Write(f...): the record goes to each core of the entry, then zap acts
\* on ce.should: nothing, a panic, or os.Exit(1).
FatalWrite ==
    /\ threads[1].pc = "armed"
    /\ LET th == threads[1]
           written == Write(th.ce, FatalLevel, th.f)
           handed == [k \in 1..Len(written) |-> "write"]
       IN /\ sinks' = Deliver(sinks, written)
          /\ CASE th.ce.should = "WriteThenFatal" ->
                    /\ world' = [world EXCEPT !.exit.terminated = TRUE]
                    /\ threads' = [threads EXCEPT
                                      ![1].order = th.order \o handed \o <<"terminate">>,
                                      ![1].pc = "dead"]
               [] th.ce.should = "WriteThenPanic" ->
                    /\ world' = world
                    /\ threads' = [threads EXCEPT
                                      ![1].order = th.order \o handed \o <<"panic">>,
                                      ![1].pc = "idle"]
               [] OTHER ->
                    /\ world' = world
                    /\ threads' = [threads EXCEPT ![1].order = th.order \o handed,
                                                  ![1].pc = "written"]
          /\ last' = [op |-> "ce.Write", l |-> th.l, vals |-> th.vals,
                      written |-> written]
    /\ UNCHANGED <<heap, loggers, derivedFrom, accumulated, sampler>>

\* exit.Exit(), and the return of Fatal if the process goes on.
FatalExit ==
    /\ threads[1].pc = "written"
    /\ world' = [world EXCEPT !.exit = Exit(world.exit),
                              !.hit = IF world.exit.real = 0 THEN world.hit
                                      ELSE world.hit \cup {world.exit.real}]
    /\ threads' = [threads EXCEPT ![1].order = threads[1].order \o <<"exit">>,
                                  ![1].pc = IF world.exit.real = 0 THEN "dead" ELSE "idle"]
    /\ last' = [op |-> "Fatal", l |-> threads[1].l, vals |-> threads[1].vals,
                order |-> threads[1].order \o <<"exit">>]
    /\ UNCHANGED <<heap, loggers, derivedFrom, accumulated, sampler, sinks>>

\* Between calls a test may stub and unstub the exit hook.
NextFatal ==
    \/ FatalCheck(1, <<>>)
    \/ FatalShould
    \/ FatalWrite
    \/ FatalExit
    \/ threads[1].pc = "idle" /\ ~world.exit.terminated /\ CallStub
    \/ \E s \in 1..MaxStubs :
          threads[1].pc = "idle" /\ ~world.exit.terminated /\ CallUnstub(s)

SpecFatal == InitFatal /\ [][NextFatal]_vars

-----------------------------------------------------------------------------
(* With and an emission on the same Logger value, statement by statement.  *)
(* threads[1] calls With, threads[2] calls Info.  Each assignment of with   *)
(* and each read of getZapFields is a step; the slice header of l.fields is *)
(* stored a word at a time, in either order, so that a read between the two *)
(* stores sees the array of one header with the length of the other.        *)

MaxWiths == 2

\* The attributes in the order with assigns them, and the member of
\* FieldOpts and the reset flag that go with each.
WriteOrder == <<"endpoint", "correlationID", "traceabilityID", "clientID", "userID">>
OptOf == [endpoint |-> "Endpoint", correlationID |-> "CorrelationID",
          traceabilityID |-> "TraceabilityID", clientID |-> "ClientID",
          userID |-> "UserID"]
ResetOf == [endpoint |-> "ResetEndpoint", correlationID |-> "ResetCorrelationID",
            traceabilityID |-> "ResetTraceabilityID", clientID |-> "ResetClientID",
            userID |-> "ResetUserID"]

\* The attributes in the order getZapFields reads them, and their keys.
ReadOrder == <<"serviceName", "endpoint", "traceabilityID", "correlationID",
               "userID", "clientID">>
KeyOf == [serviceName |-> "service", endpoint |-> "endpoint",
          traceabilityID |-> "traceabilityID", correlationID |-> "correlationID",
          userID |-> "userID", clientID |-> "clientID"]

\* The options of the With calls: several attributes at once, with fields
\* appended or overwritten, and nil options.
RaceOpts ==
    {NilOpts,
     [ZeroOpts EXCEPT !.Endpoint = "n", !.CorrelationID = "n", !.UserID = "n"],
     [ZeroOpts EXCEPT !.Endpoint = "m", !.ClientID = "m",
                      !.OverwriteAccumulatedFields = TRUE]}

InitWith ==
    /\ LET l == NewLogger([ZeroConfig EXCEPT !.ServiceName = "svc",
                                             !.EnableDevLogging = "true"],
                          NoWorld).logger
       IN /\ heap = <<(<<Int64("f", 0)>>)>>
          /\ loggers = <<[l EXCEPT !.endpoint = "o", !.correlationID = "o",
                                   !.traceabilityID = "o", !.clientID = "o",
                                   !.userID = "o",
                                   !.fields = [arr |-> 1, len |-> 1]]>>
    /\ derivedFrom = <<0>>
    /\ accumulated = <<(<<Int64("f", 0)>>)>>
    /\ sampler = NoCounts
    /\ world = NoWorld
    /\ sinks = <<>>
    /\ threads = <<[pc |-> "idle", calls |-> 0], [pc |-> "idle"]>>
    /\ last = NoOp

\* A step of the With caller overlaps the emission in progress, if any.
Overlapped(ths) ==
    IF ths[2].pc = "idle" THEN ths ELSE [ths EXCEPT ![2].overlap = TRUE]

\* threads[1] calls l.With(opts, vals...)
WithCall(opts, vals) ==
    /\ threads[1].pc = "idle"
    /\ threads[1].calls < MaxWiths
    /\ LenAfter(loggers[1], opts, vals) <= MaxLen
    /\ LET a == variadic(heap, vals)
       IN /\ heap' = a.heap
          /\ threads' = Overlapped([threads EXCEPT ![1] =
                 [pc |-> IF opts.isNil THEN "fields" ELSE "attrs", k |-> 1,
                  opts |-> opts, f |-> a.slice, vals |-> vals, new |-> NilSlice,
                  calls |-> threads[1].calls + 1]])
    /\ UNCHANGED <<loggers, derivedFrom, accumulated, sampler, world, sinks, last>>

\* if opts.ResetX { l.x = "" } else if opts.X != "" { l.x = opts.X }, for
\* the next attribute.
WithAttr ==
    /\ threads[1].pc = "attrs"
    /\ LET th == threads[1]
           x == WriteOrder[th.k]
       IN /\ loggers' = [loggers EXCEPT ![1][x] =
                            mergeAttr(@, th.opts[ResetOf[x]], th.opts[OptOf[x]])]
          /\ threads' = Overlapped([threads EXCEPT
                            ![1].k = th.k + 1,
                            ![1].pc = IF th.k = Len(WriteOrder) THEN "fields" ELSE "attrs"])
    /\ UNCHANGED <<heap, derivedFrom, accumulated, sampler, world, sinks, last>>

\* l.fields = append(l.fields, fields...) or l.fields = f: the elements are
\* in place and the first word of the header is stored, the array or the
\* length.
WithFields(first) ==
    /\ threads[1].pc = "fields"
    /\ LET th == threads[1]
           l == loggers[1]
           r == IF ~th.opts.isNil /\ th.opts.OverwriteAccumulatedFields
                THEN writeFields(heap, l, th.f)
                ELSE accumulateFields(heap, l, th.f)
           new == r.logger.fields
       IN /\ heap' = r.heap
          /\ loggers' = [loggers EXCEPT ![1].fields =
                            IF first = "arr" THEN [arr |-> new.arr, len |-> l.fields.len]
                            ELSE [arr |-> l.fields.arr, len |-> new.len]]
          /\ threads' = Overlapped([threads EXCEPT ![1].pc = "header",
                                                   ![1].new = new])
    /\ UNCHANGED <<derivedFrom, accumulated, sampler, world, sinks, last>>

\* The rest of the header is stored and with returns.
WithReturn ==
    /\ threads[1].pc = "header"
    /\ loggers' = [loggers EXCEPT ![1].fields = threads[1].new]
    /\ accumulated' = [accumulated EXCEPT ![1] =
                          Given(@, threads[1].opts, threads[1].vals)]
    /\ threads' = Overlapped([threads EXCEPT ![1] =
                                 [pc |-> "idle", calls |-> threads[1].calls]])
    /\ last' = [op |-> "With", l |-> 1, child |-> 0, opts |-> threads[1].opts,
                vals |-> threads[1].vals]
    /\ UNCHANGED <<heap, derivedFrom, sampler, world, sinks>>

\* threads[2] calls l.Info(msg, vals...):
\* total := 6 + len(fields) + len(l.fields); zapped := make([]zap.Field, total)
\* atomic is the record of a getZapFields that ran alone at this moment.
InfoCall(vals) ==
    /\ threads[2].pc = "idle"
    /\ threads' = [threads EXCEPT ![2] =
           [pc |-> "attrs", k |-> 1, vals |-> vals,
            total |-> 6 + Len(vals) + loggers[1].fields.len,
            zapped |-> <<>>, fault |-> "",
            overlap |-> threads[1].pc # "idle",
            atomic |-> IF threads[1].pc = "idle"
                       THEN getZapFields(heap, loggers[1], vals) ELSE <<>>]]
    /\ UNCHANGED <<heap, loggers, derivedFrom, accumulated, sampler, world, sinks, last>>

\* The read of an attribute as it would be if the Logger kept, and emitted,
\* the identity it was built with.
InfoAttrAsBuilt ==
    /\ threads[2].pc = "attrs"
    /\ LET th == threads[2]
           x == ReadOrder[th.k]
       IN threads' = [threads EXCEPT
              ![2].zapped = Append(th.zapped,
                                   <<KeyOf[x], IF x = "serviceName" THEN "svc" ELSE "o">>),
              ![2].k = th.k + 1,
              ![2].pc = IF th.k = Len(ReadOrder) THEN "range" ELSE "attrs"]
    /\ UNCHANGED <<heap, loggers, derivedFrom, accumulated, sampler, world, sinks, last>>

\* zapped[k] = String(key, l.x).field, for the next attribute.
InfoAttr ==
    /\ threads[2].pc = "attrs"
    /\ LET th == threads[2]
           x == ReadOrder[th.k]
       IN threads' = [threads EXCEPT
              ![2].zapped = Append(th.zapped, <<KeyOf[x], loggers[1][x]>>),
              ![2].k = th.k + 1,
              ![2].pc = IF th.k = Len(ReadOrder) THEN "range" ELSE "attrs"]
    /\ UNCHANGED <<heap, loggers, derivedFrom, accumulated, sampler, world, sinks, last>>

\* for _, f := range l.fields { zapped[i] = f.field; i++ }, then the same
\* for the call's fields.  The header is read now: a length beyond its
\* array is a read out of bounds; more fields than were counted run past
\* zapped; fewer leave zero Fields at its end, which the encoder rejects.
InfoRange ==
    /\ threads[2].pc = "range"
    /\ LET th == threads[2]
           hdr == loggers[1].fields
           counted == th.total - 6 - Len(th.vals)
           acc == Elems(heap, hdr)
       IN threads' = [threads EXCEPT
              ![2].pc = "write",
              ![2].fault = IF hdr.len > Cap(heap, hdr) THEN "out of bounds"
                           ELSE IF hdr.len > counted THEN "index out of range"
                           ELSE IF hdr.len < counted THEN "unknown field type"
                           ELSE "",
              ![2].zapped = IF hdr.len = counted /\ hdr.len <= Cap(heap, hdr)
                            THEN th.zapped
                                 \o [k \in 1..hdr.len |-> <<"field", acc[k]>>]
                                 \o Supplied(th.vals)
                            ELSE th.zapped]
    /\ UNCHANGED <<heap, loggers, derivedFrom, accumulated, sampler, world, sinks, last>>

\* l.monitorLogger.Info(message, f...), or the fault.
InfoWrite ==
    /\ threads[2].pc = "write"
    /\ LET th == threads[2]
           r == log(loggers[1].monitorLogger, sampler, InfoLevel, th.zapped)
       IN /\ sampler' = IF th.fault = "" THEN r.sampler ELSE sampler
          /\ sinks' = IF th.fault = "" THEN Deliver(sinks, r.written) ELSE sinks
          /\ last' = [op |-> "Info", l |-> 1, vals |-> th.vals,
                      written |-> IF th.fault = "" THEN r.written ELSE <<>>,
                      fault |-> th.fault, overlap |-> th.overlap,
                      atomic |-> th.atomic]
    /\ threads' = [threads EXCEPT ![2] = [pc |-> "idle"]]
    /\ UNCHANGED <<heap, loggers, derivedFrom, accumulated, world>>

NextWith ==
    \/ \E opts \in RaceOpts, vals \in {<<>>, <<Int64("g", 1)>>} : WithCall(opts, vals)
    \/ WithAttr
    \/ \E first \in {"arr", "len"} : WithFields(first)
    \/ WithReturn
    \/ InfoCall(<<Int64("c", 2)>>)
    \/ InfoAttr
    \/ InfoRange
    \/ InfoWrite

SpecWith == InitWith /\ [][NextWith]_vars

\* C27: when no With was in progress at any moment of an emission (the two
\* are serialized), the call raises no fault and writes one record, the one
\* a getZapFields running alone would have laid out: all of every With that
\* returned before it and none of any that was called after it.
C27_SerializedWith ==
    (last.op = "Info" /\ "overlap" \in DOMAIN last /\ ~last.overlap) =>
        /\ last.fault = ""
        /\ Len(last.written) = 1
        /\ last.written[1].fields = last.atomic

\* An emission that ran while With(&FieldOpts{Endpoint: "n", CorrelationID:
\* "n", UserID: "n"}) was in progress wrote a record with the new endpoint
\* and the old correlation ID and user ID.
C27_Witness ==
    /\ last.op = "Info"
    /\ "overlap" \in DOMAIN last
    /\ last.overlap
    /\ last.fault = ""
    /\ Len(last.written) = 1
    /\ last.written[1].fields[2] = <<"endpoint", "n">>
    /\ last.written[1].fields[4] = <<"correlationID", "o">>
    /\ last.written[1].fields[5] = <<"userID", "o">>

-----------------------------------------------------------------------------
(* logctx: a Logger carried by a context.Context, gRPC tags as fields *)

\* Calls of Extract on the one context.
MaxExtracts == 2

\* The keys and values the gRPC tags of the context may hold.
TagKeys == {"t1", "t2"}

TagValues == {1, 2}

\* logging.Any(k, v) for a tag: one Field of the tag's key and value.
AnyField(k, v) == <<k, v>>

\* The orders in which a range over a map with the keys ks may visit them.
RangeOrders(ks) ==
    {o \in [1..Cardinality(ks) -> ks] :
        \A a, b \in 1..Cardinality(ks) : a # b => o[a] # o[b]}

\* TagsToFields(ctx): fields := []Field{}, then one append of Any(k, v) for
\* each tag, in the order the range over tags.Values() visits them.
RECURSIVE TagsToFields(_, _, _)
TagsToFields(h, tags, order) ==
    IF Len(order) = 0 THEN [heap |-> h, slice |-> NilSlice]
    ELSE LET r == TagsToFields(h, tags, SubSeq(order, 1, Len(order) - 1))
             k == order[Len(order)]
         IN append(r.heap, r.slice, <<AnyField(k, tags[k])>>)

\* nullLogger, the package's one NewNopLogger(): no identity, no fields.
nullLogger ==
    [serviceName |-> "", loggerName |-> "",
     endpoint |-> "", correlationID |-> "", traceabilityID |-> "",
     clientID |-> "", userID |-> "", fields |-> NilSlice,
     monitorLogger |-> NilValue, reportingLogger |-> NilValue,
     closers |-> <<>>]

\* loggers[1] is nullLogger, loggers[2] the Logger the caller holds, with
\* nothing or one field accumulated; world.ctx is the index of the Logger the
\* context carries (0: none), world.tags its gRPC tags.
InitExtract ==
    /\ \E vals \in {<<>>, <<Int64("f", 0)>>} :
         LET a == variadic(<<>>, vals)
         IN /\ heap = a.heap
            /\ loggers = <<nullLogger,
                 [NewLogger([ZeroConfig EXCEPT !.ServiceName = "svc"], NoWorld).logger
                    EXCEPT !.fields = a.slice]>>
            /\ accumulated = <<(<<>>), vals>>
    /\ derivedFrom = <<0, 0>>
    /\ sampler = NoCounts
    /\ world = [env |-> NoEnv, aws |-> NoWorld.aws, ctx |-> 0,
                tags |-> <<>>, original |-> <<>>, calls |-> 0]
    /\ sinks = <<>>
    /\ threads = <<>>
    /\ last = NoOp

\* ToContext(ctx, logger): the context carries &ctxLogger{logger}.
ToContext ==
    /\ world.ctx = 0
    /\ world' = [world EXCEPT !.ctx = 2, !.original = Elems(heap, loggers[2].fields)]
    /\ last' = [op |-> "ToContext", l |-> 2]
    /\ UNCHANGED <<heap, loggers, derivedFrom, accumulated, sampler, sinks, threads>>

\* grpc_ctxtags.Extract(ctx).Set(k, v)
SetTag(k, v) ==
    /\ world.calls < MaxExtracts
    /\ world' = [world EXCEPT !.tags =
                   [x \in DOMAIN world.tags \cup {k} |->
                       IF x = k THEN v ELSE world.tags[x]]]
    /\ last' = [op |-> "SetTag", l |-> 0]
    /\ UNCHANGED <<heap, loggers, derivedFrom, accumulated, sampler, sinks, threads>>

\* Extract(ctx): nullLogger when the context carries no Logger, else
\* l.logger.With(nil, TagsToFields(ctx)...), which is the stored Logger itself.
Extract(order) ==
    /\ world.calls < MaxExtracts
    /\ world' = [world EXCEPT !.calls = @ + 1]
    /\ IF world.ctx = 0
       THEN /\ last' = [op |-> "Extract", ctx |-> 0, returned |-> 1,
                        tags |-> world.tags, original |-> world.original,
                        fields |-> Elems(heap, loggers[1].fields),
                        stored |-> <<>>]
            /\ UNCHANGED <<heap, loggers, accumulated>>
       ELSE LET f == TagsToFields(heap, world.tags, order)
                r == with(f.heap, loggers[world.ctx], NilOpts, f.slice)
                g == collect(r.heap, [loggers EXCEPT ![world.ctx] = r.logger])
            IN /\ heap' = g.heap
               /\ loggers' = g.loggers
               /\ accumulated' = [accumulated EXCEPT ![world.ctx] =
                                     @ \o Elems(f.heap, f.slice)]
               /\ last' = [op |-> "Extract", ctx |-> world.ctx, returned |-> world.ctx,
                           tags |-> world.tags, original |-> world.original,
                           fields |-> Elems(g.heap, g.loggers[world.ctx].fields),
                           stored |-> Elems(g.heap, g.loggers[world.ctx].fields)]
    /\ UNCHANGED <<derivedFrom, sampler, sinks, threads>>

NextExtract ==
    \/ ToContext
    \/ \E k \in TagKeys, v \in TagValues : SetTag(k, v)
    \/ \E order \in RangeOrders(DOMAIN world.tags) : Extract(order)

SpecExtract == InitExtract /\ [][NextExtract]_vars

\* C28: Extract returns the no-op logger when the context carries no Logger;
\* otherwise, at every call, the returned logger's accumulated fields are the
\* fields the stored Logger had when it was put in the context followed by
\* exactly one field for each current tag, and the stored Logger's accumulated
\* fields are still those it had.
C28_ExtractRepeatable ==
    last.op = "Extract" =>
        IF last.ctx = 0
        THEN last.returned = 1
        ELSE LET n == Len(last.original)
                 ks == DOMAIN last.tags
             IN /\ Len(last.fields) = n + Cardinality(ks)
                /\ SubSeq(last.fields, 1, n) = last.original
                /\ {last.fields[j] : j \in n + 1..Len(last.fields)}
                       = {AnyField(k, last.tags[k]) : k \in ks}
                /\ last.stored = last.original

-----------------------------------------------------------------------------
(* Construction and the BufferedSinks it starts *)

\* The configurations supplied: both streams named or the monitoring one
\* alone, kinesis enabled or disabled.
LeakConfigs ==
    {[ZeroConfig EXCEPT !.ServiceName = "svc", !.EnableDevLogging = "true",
                        !.DisableKinesis = kin,
                        !.KinesisStreamMonitoring = "mon",
                        !.KinesisStreamReporting = rep] :
        kin \in {"true", "false"}, rep \in {"", "rep"}}

\* world.err is the error of the NewLogger call once it has returned
\* ("none" before it).
InitLeak ==
    /\ heap = <<>>
    /\ loggers = <<>>
    /\ derivedFrom = <<>>
    /\ accumulated = <<>>
    /\ sampler = NoCounts
    /\ \E aws \in Clouds :
         world = [env |-> NoEnv, aws |-> aws, stdout |-> "EINVAL", err |-> "none"]
    /\ sinks = <<>>
    /\ threads = <<>>
    /\ last = NoOp

\* l, err := NewLogger(config), with the BufferedSinks writer.Buffer starts
\* on the way: each runs its background flush task from then on.
NewLoggerCall(config) ==
    /\ world.err = "none"
    /\ last' = [op |-> "NewLogger", config |-> config,
                result |-> NewLogger(config, world)]
    /\ loggers' = IF last'.result.err = "" THEN <<last'.result.logger>> ELSE <<>>
    /\ derivedFrom' = IF last'.result.err = "" THEN <<0>> ELSE <<>>
    /\ accumulated' = IF last'.result.err = "" THEN <<(<<>>)>> ELSE <<>>
    /\ sinks' = StartSinks(last'.result.started)
    /\ world' = [world EXCEPT !.err = last'.result.err]
    /\ UNCHANGED <<heap, sampler, threads>>

NextLeak ==
    \/ \E config \in LeakConfigs : NewLoggerCall(config)
    \/ Quota /\ Info(1, <<>>)
    \/ Close(1)
    \/ \E st \in {"mon", "rep"} : BgWake(st)
    \/ \E st \in {"mon", "rep"} : BgFlush(st)

SpecLeak == InitLeak /\ [][NextLeak]_vars

\* C29: once NewLogger has returned an error, no BufferedSink it started is
\* left: each has been closed and its background flush task has stopped.
C29_NoLeak ==
    world.err \notin {"none", ""} =>
        \A st \in DOMAIN sinks :
            /\ sinks[st].closeCalls > 0
            /\ sinks[st].bg = "stopped"

-----------------------------------------------------------------------------
(* With and NewChild called with a slice of the caller: l.With(opts, fs...) *)

\* world.caller is the slice fs the caller holds and passes with fs...; the
\* caller stores to its elements between the calls.
InitAlias ==
    /\ \E vals \in {<<Int64("f", 0)>>, <<Int64("f", 0), Int64("g", 0)>>} :
         /\ heap = <<vals>>
         /\ world = [env |-> NoEnv, aws |-> NoWorld.aws,
                     caller |-> [arr |-> 1, len |-> Len(vals)]]
    /\ loggers = <<NewLogger([ZeroConfig EXCEPT !.ServiceName = "svc",
                                                !.EnableDevLogging = "true"],
                             NoWorld).logger>>
    /\ derivedFrom = <<0>>
    /\ accumulated = <<(<<>>)>>
    /\ sampler = NoCounts
    /\ sinks = <<>>
    /\ threads = <<>>
    /\ last = NoOp

\* collect, the caller's slice being reachable too: [heap, loggers, caller].
collectKeeping(h, ls, caller) ==
    LET g == collect(h, Append(ls, [fields |-> caller]))
    IN [heap |-> g.heap, loggers |-> SubSeq(g.loggers, 1, Len(ls)),
        caller |-> g.loggers[Len(ls) + 1].fields]

\* l.With(opts, fs...): the variadic parameter is the caller's slice itself.
WithSlice(i, opts) ==
    /\ i \in 1..Len(loggers)
    /\ LenAfter(loggers[i], opts, Elems(heap, world.caller)) <= MaxLen
    /\ LET r == with(heap, loggers[i], opts, world.caller)
           g == collectKeeping(r.heap, [loggers EXCEPT ![i] = r.logger], world.caller)
       IN /\ heap' = g.heap
          /\ loggers' = g.loggers
          /\ world' = [world EXCEPT !.caller = g.caller]
    /\ accumulated' = [accumulated EXCEPT ![i] =
                          Given(accumulated[i], opts, Elems(heap, world.caller))]
    /\ last' = [op |-> "With", l |-> i, child |-> 0, opts |-> opts,
                vals |-> Elems(heap, world.caller)]
    /\ UNCHANGED <<derivedFrom, sampler, sinks, threads>>

\* l.NewChild(opts, fs...)
NewChildSlice(i, opts) ==
    /\ i \in 1..Len(loggers)
    /\ Len(loggers) < MaxLoggers
    /\ LenAfter(loggers[i], opts, Elems(heap, world.caller)) <= MaxLen
    /\ LET new == loggers[i]
           r == with(heap, new, opts, world.caller)
           g == collectKeeping(r.heap, Append(loggers, r.logger), world.caller)
       IN /\ heap' = g.heap
          /\ loggers' = g.loggers
          /\ world' = [world EXCEPT !.caller = g.caller]
    /\ derivedFrom' = Append(derivedFrom, i)
    /\ accumulated' = Append(accumulated,
                             Given(accumulated[i], opts, Elems(heap, world.caller)))
    /\ last' = [op |-> "NewChild", l |-> i, child |-> Len(loggers) + 1,
                opts |-> opts, vals |-> Elems(heap, world.caller)]
    /\ UNCHANGED <<sampler, sinks, threads>>

\* fs[j] = NewInt64Field(k, v), by the caller.
CallerStore(j, v) ==
    /\ j \in 1..world.caller.len
    /\ heap[world.caller.arr][j] # Int64(heap[world.caller.arr][j][1], v)
    /\ heap' = [heap EXCEPT ![world.caller.arr][j] = Int64(@[1], v)]
    /\ last' = [op |-> "CallerStore", l |-> 0, j |-> j]
    /\ UNCHANGED <<loggers, derivedFrom, accumulated, sampler, world, sinks, threads>>

NextAlias ==
    \/ \E i \in 1..MaxPair, opts \in DeriveOpts : WithSlice(i, opts)
    \/ \E opts \in DeriveOpts : Len(loggers) < MaxPair /\ NewChildSlice(1, opts)
    \/ \E v \in {0, 1} : CallerStore(1, v)
    \/ \E i \in 1..MaxPair : Info(i, <<>>)

SpecAlias == InitAlias /\ [][NextAlias]_vars

\* C30: a store of the caller to the slice it passed to With or NewChild,
\* made after the call returned, changes the accumulated fields of no Logger
\* and so no record a Logger emits: the fields getZapFields lays out for
\* every Logger are the same after the store as before it.
C30_NoCallerAliasing ==
    [][last'.op = "CallerStore" =>
          \A i \in 1..Len(loggers) :
              getZapFields(heap', loggers'[i], <<>>)
                  = getZapFields(heap, loggers[i], <<>>)]_vars

=============================================================================
